---- MODULE Spec2Model ----
(***************************************************************************)
(* The MySQL projection of the Kafka -> MySQL analytics pipeline: the      *)
(* per-entity consumers (apps/mysql_server/src/consumers) flatten an       *)
(* event envelope and the DALs (apps/mysql_server/src/dal) apply it to the *)
(* relational tables of db/tables.py.                                      *)
(*                                                                         *)
(* Encoding of values.  Python None and SQL NULL are the string NULL in a  *)
(* text or datetime slot and NoneInt in an integer slot.  A Python dict is *)
(* a function from keys to values (EmptyDict is {}); a dict that is        *)
(* iterated (data.variants) is the sequence of its items.  A timestamp on  *)
(* the wire is its ISO-8601 text, and a DATETIME(6) column holds the       *)
(* database text of the instant.                                           *)
(***************************************************************************)
EXTENDS Integers, Sequences, FiniteSets, TLC

VARIABLES
    db,         \* the relational store: the seven tables and the two AUTO_INCREMENT counters
    clock,      \* the database server's clock, read by NOW(6)
    subscribed, \* the topics this consumer process subscribed to
    last,       \* history: the envelope whose handler ran last (NoEvent before the first)
    pre,        \* history: the store as it was when that handler started
    raised,     \* history: whether that handler ended with a database error
    bus,        \* the partitions of every topic: the envelopes published, in offset order
    committed,  \* the consumer group's committed offset of every partition
    consumer,   \* the consumer process: flag, loop position, fetch positions, message in flight
    emitted,    \* history: the envelopes in the order emit() was called
    handled,    \* history: the messages whose _process_message returned, in that order
    pool,       \* the connection pool and the DAL call in progress
    mongo,      \* the primary store: the documents of the producing services
    call,       \* history: the service operation called last and how it ended
    handlers    \* the consumer's dispatch table: event type -> the consumer whose handler it is

vars == <<db, clock, subscribed, last, pre, raised, bus, committed, consumer, emitted, handled,
          pool, mongo, call, handlers>>

----------------------------------------------------------------------------
(* Values *)

NULL == "NULL"
NoneInt == 0 - 1
EmptyDict == [k \in {} |-> NULL]
NoEvent == EmptyDict

\* dict.get(k, default)
Get(d, k, default) == IF k \in DOMAIN d THEN d[k] ELSE default

\* The instants the envelopes' timestamps are drawn from.
MaxInstant == 2
Instants == 1..MaxInstant
\* The ISO-8601 text of an instant, as the producer serialises it (Z suffix).
IsoText(n) == "2025-01-0" \o ToString(n) \o "T00:00:00Z"
\* The text a DATETIME(6) column holds for an instant.
DbText(n) == "2025-01-0" \o ToString(n) \o " 00:00:00"

\* _parse_ts of every consumer: falsy (None, "") gives None, else the datetime
\* of the ISO text with Z read as +00:00.
_parse_ts(ts) ==
    IF ts = NULL \/ ts = "" THEN NULL
    ELSE DbText(CHOOSE n \in Instants : IsoText(n) = ts)

\* NOW(6) of the database server at clock value n; the clock never runs
\* backwards, and MaxClock bounds it.
MaxClock == 2
NOW(n) == "2025-02-0" \o ToString(n) \o " 00:00:00"

\* json.dumps(x): the JSON text of x.
json_dumps(x) == ToString(x)

\* The INT and DOUBLE columns of db/tables.py, where NULL is NoneInt.
IntColumns ==
    {"version", "base_price_cents", "view_count", "favorite_count",
     "purchase_count", "total_reviews", "id", "price_cents", "cost_cents",
     "quantity", "width_cm", "height_cm", "depth_cm", "unit_price_cents",
     "final_price_cents", "total_cents", "shipped_quantity", "like_count",
     "comment_count", "share_count", "save_count", "engagement_rate"}
IsNull(row, c) == IF c \in IntColumns THEN row[c] = NoneInt ELSE row[c] = NULL

\* The second operand whatever the first is.
OrElse_second(x, y) == y

\* x or y, for string ids
OrElse(x, y) == IF x = NULL \/ x = "" THEN y ELSE x

----------------------------------------------------------------------------
(* shared/kafka/topics.py *)

Topic_all == {"user", "order", "post", "product", "supplier"}

\* Every topic has NumPartitions partitions.
NumPartitions == 2
TopicPartitions == Topic_all \X (0..NumPartitions - 1)

USER_CREATED == "user.created"
USER_UPDATED == "user.updated"
USER_DELETED == "user.deleted"
SUPPLIER_CREATED == "supplier.created"
SUPPLIER_UPDATED == "supplier.updated"
SUPPLIER_DELETED == "supplier.deleted"
PRODUCT_CREATED == "product.created"
PRODUCT_UPDATED == "product.updated"
PRODUCT_PUBLISHED == "product.published"
PRODUCT_DISCONTINUED == "product.discontinued"
PRODUCT_OUT_OF_STOCK == "product.out_of_stock"
PRODUCT_RESTORED == "product.restored"
PRODUCT_DELETED == "product.deleted"
ORDER_CREATED == "order.created"
ORDER_CANCELLED == "order.cancelled"
POST_CREATED == "post.created"
POST_UPDATED == "post.updated"
POST_PUBLISHED == "post.published"
POST_DELETED == "post.deleted"

\* The constants of class EventType.
EventType ==
    {USER_CREATED, USER_UPDATED, USER_DELETED,
     SUPPLIER_CREATED, SUPPLIER_UPDATED, SUPPLIER_DELETED,
     PRODUCT_CREATED, PRODUCT_UPDATED, PRODUCT_PUBLISHED, PRODUCT_DISCONTINUED,
     PRODUCT_OUT_OF_STOCK, PRODUCT_RESTORED, PRODUCT_DELETED,
     ORDER_CREATED, ORDER_CANCELLED,
     POST_CREATED, POST_UPDATED, POST_PUBLISHED, POST_DELETED}

\* The five entity consumers.
Consumers ==
    {"UserConsumer", "SupplierConsumer", "ProductConsumer", "OrderConsumer",
     "PostConsumer"}

\* The keys of get_handlers() in which PostConsumer also lists user.deleted.
HandlerKeys_overlapping(c) ==
    CASE c = "UserConsumer" -> {USER_CREATED, USER_UPDATED, USER_DELETED}
      [] c = "SupplierConsumer" -> {SUPPLIER_CREATED, SUPPLIER_UPDATED, SUPPLIER_DELETED}
      [] c = "ProductConsumer" ->
            {PRODUCT_CREATED, PRODUCT_UPDATED, PRODUCT_PUBLISHED, PRODUCT_DISCONTINUED,
             PRODUCT_OUT_OF_STOCK, PRODUCT_RESTORED, PRODUCT_DELETED}
      [] c = "OrderConsumer" -> {ORDER_CREATED, ORDER_CANCELLED}
      [] c = "PostConsumer" -> {POST_CREATED, POST_UPDATED, POST_PUBLISHED, USER_DELETED}

\* The keys of the dict get_handlers() of consumer c returns.
HandlerKeys(c) ==
    CASE c = "UserConsumer" -> {USER_CREATED, USER_UPDATED, USER_DELETED}
      [] c = "SupplierConsumer" -> {SUPPLIER_CREATED, SUPPLIER_UPDATED, SUPPLIER_DELETED}
      [] c = "ProductConsumer" ->
            {PRODUCT_CREATED, PRODUCT_UPDATED, PRODUCT_PUBLISHED, PRODUCT_DISCONTINUED,
             PRODUCT_OUT_OF_STOCK, PRODUCT_RESTORED, PRODUCT_DELETED}
      [] c = "OrderConsumer" -> {ORDER_CREATED, ORDER_CANCELLED}
      [] c = "PostConsumer" -> {POST_CREATED, POST_UPDATED, POST_PUBLISHED, POST_DELETED}

\* The table of a started consumer process: every get_handlers() entry has
\* been passed to register_handler.
AssembledHandlers ==
    [k \in UNION {HandlerKeys(c) : c \in Consumers} |->
        CHOOSE c \in Consumers : k \in HandlerKeys(c)]

----------------------------------------------------------------------------
(* Envelopes: {event_id, event_type, entity_id, timestamp, data} *)

\* One emission: a fresh event_id and the producer's clock at emit().
\* e1 is emitted before e2.
Stamp(n) == [event_id |-> "e" \o ToString(n), timestamp |-> IsoText(n)]
Stamps == {Stamp(n) : n \in Instants}

Envelope(type, id, stamp, data) ==
    [event_id |-> stamp.event_id, event_type |-> type, entity_id |-> id,
     timestamp |-> stamp.timestamp, data |-> data]

\* The envelopes of a topic: every combination of event stamp and document
\* for the first entity id, and one stamp and one document for every other
\* id (the rows that stand by while the first entity's row is written).
Combine(type, ids, first, docs, otherDocs) ==
    {Envelope(type, first, s, doc) : s \in Stamps, doc \in docs}
    \cup {Envelope(type, id, Stamp(1), doc) : id \in ids \ {first}, doc \in otherDocs}


----------------------------------------------------------------------------
(* The store *)

\* The result of a DAL call or of a handler: the store it leaves and whether
\* a database error propagated out of it.
Ok(d) == [db |-> d, raised |-> FALSE]
Raise(d) == [db |-> d, raised |-> TRUE]

\* INSERT ... ON DUPLICATE KEY UPDATE on a table keyed by its primary key
\* alone: a NULL in a NOT NULL column is an error and writes nothing; a new
\* key inserts the row; an existing key overwrites the columns of `upd`.
InsertOnDuplicateKeyUpdate(table, key, row, notnull, upd) ==
    IF \E c \in notnull : IsNull(row, c) THEN [table |-> table, raised |-> TRUE]
    ELSE IF key \in DOMAIN table
    THEN [table |-> [table EXCEPT ![key] =
                        [c \in DOMAIN row |-> IF c \in upd THEN row[c] ELSE @[c]]],
          raised |-> FALSE]
    ELSE [table |-> [k \in DOMAIN table \cup {key} |->
                        IF k = key THEN row ELSE table[k]],
          raised |-> FALSE]

----------------------------------------------------------------------------
(* users: db/tables.py, dal/user_dal.py, consumers/user_consumer.py *)

users_columns ==
    {"user_id", "email", "phone", "display_name", "avatar", "bio", "version",
     "deleted_at", "created_at", "updated_at", "event_id", "event_timestamp"}
users_not_null == {"user_id", "email", "display_name", "created_at", "updated_at"}
users_on_duplicate ==
    {"email", "phone", "display_name", "avatar", "bio", "version",
     "deleted_at", "updated_at", "event_id", "event_timestamp"}

\* insert_user with a staleness guard: a stored row whose event_timestamp is
\* later than the incoming one is left as it is.
insert_user_guarded(d, p) ==
    IF /\ p.user_id \in DOMAIN d.users
       /\ \E a, b \in Instants :
            /\ DbText(a) = p.event_timestamp
            /\ DbText(b) = d.users[p.user_id].event_timestamp
            /\ a < b
    THEN Ok(d)
    ELSE LET r == InsertOnDuplicateKeyUpdate(d.users, p.user_id, p,
                                             users_not_null, users_on_duplicate)
         IN  [db |-> [d EXCEPT !.users = r.table], raised |-> r.raised]

insert_user(d, p) ==
    LET r == InsertOnDuplicateKeyUpdate(d.users, p.user_id, p,
                                        users_not_null, users_on_duplicate)
    IN  [db |-> [d EXCEPT !.users = r.table], raised |-> r.raised]

\* soft_delete_user that writes a tombstone row when the user has no row.
soft_delete_user_tombstoning(d, user_id, event_id, event_timestamp, now) ==
    Ok([d EXCEPT !.users =
        [k \in DOMAIN d.users \cup {user_id} |->
            IF k = user_id
            THEN [c \in users_columns |->
                    CASE c = "user_id" -> user_id
                      [] c = "deleted_at" -> NOW(now)
                      [] c = "event_id" -> event_id
                      [] c = "event_timestamp" -> event_timestamp
                      [] c = "version" -> 1
                      [] OTHER -> IF k \in DOMAIN d.users THEN d.users[k][c] ELSE NULL]
            ELSE d.users[k]]])

\* soft_delete_user issuing DELETE FROM users WHERE user_id = %s instead.
soft_delete_user_removing(d, user_id, event_id, event_timestamp, now) ==
    Ok([d EXCEPT !.users = [k \in DOMAIN d.users \ {user_id} |-> d.users[k]]])

\* UPDATE users SET deleted_at = NOW(6), event_id, event_timestamp WHERE user_id = %s
soft_delete_user(d, user_id, event_id, event_timestamp, now) ==
    Ok([d EXCEPT !.users =
        [k \in DOMAIN d.users |->
            IF k = user_id
            THEN [d.users[k] EXCEPT !.deleted_at = NOW(now),
                                    !.event_id = event_id,
                                    !.event_timestamp = event_timestamp]
            ELSE d.users[k]]])

\* _handle_user_upsert reading email and display_name from the top level of
\* data instead of from contact_info and profile.
_handle_user_upsert_unnested(d, event) ==
    LET data == Get(event, "data", EmptyDict)
        contact == Get(data, "contact_info", EmptyDict)
        profile == Get(data, "profile", EmptyDict)
    IN  insert_user(d,
            [user_id |-> Get(event, "entity_id", NULL),
             email |-> Get(data, "primary_email", NULL),
             phone |-> Get(contact, "phone", NULL),
             display_name |-> Get(data, "display_name", NULL),
             avatar |-> Get(profile, "avatar", NULL),
             bio |-> Get(profile, "bio", NULL),
             version |-> Get(data, "version", 1),
             deleted_at |-> _parse_ts(Get(data, "deleted_at", NULL)),
             created_at |-> _parse_ts(Get(data, "created_at", NULL)),
             updated_at |-> _parse_ts(Get(data, "updated_at", NULL)),
             event_id |-> Get(event, "event_id", NULL),
             event_timestamp |-> _parse_ts(Get(event, "timestamp", NULL))])

_handle_user_upsert(d, event) ==
    LET data == Get(event, "data", EmptyDict)
        contact == Get(data, "contact_info", EmptyDict)
        profile == Get(data, "profile", EmptyDict)
    IN  insert_user(d,
            [user_id |-> Get(event, "entity_id", NULL),
             email |-> Get(contact, "primary_email", NULL),
             phone |-> Get(contact, "phone", NULL),
             display_name |-> Get(profile, "display_name", NULL),
             avatar |-> Get(profile, "avatar", NULL),
             bio |-> Get(profile, "bio", NULL),
             version |-> Get(data, "version", 1),
             deleted_at |-> _parse_ts(Get(data, "deleted_at", NULL)),
             created_at |-> _parse_ts(Get(data, "created_at", NULL)),
             updated_at |-> _parse_ts(Get(data, "updated_at", NULL)),
             event_id |-> Get(event, "event_id", NULL),
             event_timestamp |-> _parse_ts(Get(event, "timestamp", NULL))])

user_deleted(d, event, now) ==
    LET data == Get(event, "data", EmptyDict)
    IN  soft_delete_user(d,
            OrElse(Get(data, "user_id", NULL), Get(event, "entity_id", NULL)),
            Get(event, "event_id", NULL),
            _parse_ts(Get(event, "timestamp", NULL)),
            now)

\* The user documents the envelopes carry (User.model_dump), and thinner ones.
UserIds == {"u1", "u2"}
UserDocAnn ==
     [contact_info |-> [primary_email |-> "a@b.com", phone |-> NULL],
      profile |-> [display_name |-> "Ann", avatar |-> NULL, bio |-> NULL],
      version |-> 1, deleted_at |-> NULL,
      created_at |-> IsoText(1), updated_at |-> IsoText(1)]
\* A document that carries the e-mail, the display name and the version only.
UserDocBare ==
     [contact_info |-> [primary_email |-> "a@b.com"],
      profile |-> [display_name |-> "Ann"],
      version |-> 1]
UserDocCat ==
     [contact_info |-> [primary_email |-> "c@d.com", phone |-> "555"],
      profile |-> [display_name |-> "Cat", avatar |-> "cat.png", bio |-> "hi"],
      version |-> 2, deleted_at |-> NULL,
      created_at |-> IsoText(2), updated_at |-> IsoText(2)]
UserDocs == {UserDocAnn, UserDocCat, UserDocBare}

UserUpsertEnvelopes(type) == Combine(type, UserIds, "u1", UserDocs, {UserDocAnn})
\* delete_user emits data {user_id}; a bare envelope carries no data.
UserDeletedEnvelopes ==
    Combine(USER_DELETED, UserIds, "u1", {[user_id |-> "u1"], EmptyDict},
            {[user_id |-> "u2"]})

----------------------------------------------------------------------------
(* suppliers: db/tables.py, dal/supplier_dal.py, consumers/supplier_consumer.py *)

suppliers_not_null ==
    {"supplier_id", "email", "primary_phone", "legal_name", "created_at", "updated_at"}
suppliers_on_duplicate ==
    {"email", "primary_phone", "contact_person_name", "contact_person_title",
     "contact_person_email", "contact_person_phone", "legal_name", "dba_name",
     "street_address_1", "street_address_2", "city", "state", "zip_code",
     "country", "support_email", "support_phone", "facebook_url",
     "instagram_handle", "twitter_handle", "linkedin_url", "timezone",
     "updated_at", "event_id", "event_timestamp"}

insert_supplier(d, p) ==
    LET r == InsertOnDuplicateKeyUpdate(d.suppliers, p.supplier_id, p,
                                        suppliers_not_null, suppliers_on_duplicate)
    IN  [db |-> [d EXCEPT !.suppliers = r.table], raised |-> r.raised]

\* DELETE FROM suppliers WHERE supplier_id = %s (no table references suppliers)
delete_supplier(d, supplier_id) ==
    Ok([d EXCEPT !.suppliers =
        [k \in DOMAIN d.suppliers \ {supplier_id} |-> d.suppliers[k]]])

_handle_supplier_upsert(d, event) ==
    LET data == Get(event, "data", EmptyDict)
        contact == Get(data, "contact_info", EmptyDict)
        company == Get(data, "company_info", EmptyDict)
        address == Get(company, "business_address", EmptyDict)
        biz == Get(data, "business_info", EmptyDict)
    IN  insert_supplier(d,
            [supplier_id |-> Get(event, "entity_id", NULL),
             email |-> Get(contact, "primary_email", NULL),
             primary_phone |-> Get(contact, "primary_phone", NULL),
             contact_person_name |-> Get(contact, "contact_person_name", NULL),
             contact_person_title |-> Get(contact, "contact_person_title", NULL),
             contact_person_email |-> Get(contact, "contact_person_email", NULL),
             contact_person_phone |-> Get(contact, "contact_person_phone", NULL),
             legal_name |-> Get(company, "legal_name", NULL),
             dba_name |-> Get(company, "dba_name", NULL),
             street_address_1 |-> Get(address, "street_address_1", NULL),
             street_address_2 |-> Get(address, "street_address_2", NULL),
             city |-> Get(address, "city", NULL),
             state |-> Get(address, "state", NULL),
             zip_code |-> Get(address, "zip_code", NULL),
             country |-> Get(address, "country", NULL),
             support_email |-> Get(biz, "support_email", NULL),
             support_phone |-> Get(biz, "support_phone", NULL),
             facebook_url |-> Get(biz, "facebook_url", NULL),
             instagram_handle |-> Get(biz, "instagram_handle", NULL),
             twitter_handle |-> Get(biz, "twitter_handle", NULL),
             linkedin_url |-> Get(biz, "linkedin_url", NULL),
             timezone |-> Get(biz, "timezone", NULL),
             created_at |-> _parse_ts(Get(data, "created_at", NULL)),
             updated_at |-> _parse_ts(Get(data, "updated_at", NULL)),
             event_id |-> Get(event, "event_id", NULL),
             event_timestamp |-> _parse_ts(Get(event, "timestamp", NULL))])

supplier_deleted(d, event) ==
    LET data == Get(event, "data", EmptyDict)
    IN  delete_supplier(d,
            OrElse(Get(data, "supplier_id", NULL), Get(event, "entity_id", NULL)))

SupplierIds == {"s1", "s2"}
SupplierDocAcme ==
     [contact_info |-> [primary_email |-> "s@acme.com", primary_phone |-> "100",
                        contact_person_name |-> "Al", contact_person_title |-> NULL,
                        contact_person_email |-> NULL, contact_person_phone |-> NULL],
      company_info |-> [legal_name |-> "Acme", dba_name |-> NULL,
                        business_address |-> [street_address_1 |-> "1 Main",
                            street_address_2 |-> NULL, city |-> "Haifa",
                            state |-> "HA", zip_code |-> "1", country |-> "IL"]],
      business_info |-> [support_email |-> NULL, support_phone |-> NULL,
                         facebook_url |-> NULL, instagram_handle |-> NULL,
                         twitter_handle |-> NULL, linkedin_url |-> NULL,
                         timezone |-> "UTC"],
      created_at |-> IsoText(1), updated_at |-> IsoText(1)]
SupplierDocs ==
    {SupplierDocAcme,
     [contact_info |-> [primary_email |-> "t@bolt.com", primary_phone |-> "200",
                        contact_person_name |-> "Bo", contact_person_title |-> "CEO",
                        contact_person_email |-> "bo@bolt.com",
                        contact_person_phone |-> "201"],
      company_info |-> [legal_name |-> "Bolt", dba_name |-> "B",
                        business_address |-> [street_address_1 |-> "2 Side",
                            street_address_2 |-> "Apt 2", city |-> "Eilat",
                            state |-> "D", zip_code |-> "2", country |-> "IL"]],
      business_info |-> [support_email |-> "help@bolt.com", support_phone |-> "202",
                         facebook_url |-> "fb", instagram_handle |-> "ig",
                         twitter_handle |-> "tw", linkedin_url |-> "li",
                         timezone |-> "Asia/Jerusalem"],
      created_at |-> IsoText(2), updated_at |-> IsoText(2)],
     [contact_info |-> [primary_email |-> "s@acme.com"],
      created_at |-> IsoText(1), updated_at |-> IsoText(1)]}

SupplierUpsertEnvelopes(type) ==
    Combine(type, SupplierIds, "s1", SupplierDocs, {SupplierDocAcme})
SupplierDeletedEnvelopes ==
    Combine(SUPPLIER_DELETED, SupplierIds, "s1", {[supplier_id |-> "s1"], EmptyDict},
            {[supplier_id |-> "s2"]})

----------------------------------------------------------------------------
(* products, product_variants: db/tables.py, dal/product_dal.py,           *)
(* consumers/product_consumer.py                                           *)

products_not_null ==
    {"product_id", "supplier_id", "name", "category", "unit_type",
     "base_price_cents", "status", "created_at", "updated_at"}
products_on_duplicate ==
    {"supplier_name", "name", "short_description", "category", "unit_type",
     "base_sku", "brand", "base_price_cents", "status", "view_count",
     "favorite_count", "purchase_count", "total_reviews", "published_at",
     "updated_at", "event_id", "event_timestamp"}
product_variants_not_null ==
    {"product_id", "variant_key", "variant_id", "variant_name", "price_cents"}

\* The AUTO_INCREMENT ids the model may hand out per child table.
MaxAutoId == 6

\* upsert_product whose ON DUPLICATE KEY UPDATE list leaves status out.
upsert_product_keeping_status(d, p) ==
    LET r == InsertOnDuplicateKeyUpdate(d.products, p.product_id, p,
                products_not_null, products_on_duplicate \ {"status"})
    IN  [db |-> [d EXCEPT !.products = r.table], raised |-> r.raised]

upsert_product(d, p) ==
    LET r == InsertOnDuplicateKeyUpdate(d.products, p.product_id, p,
                                        products_not_null, products_on_duplicate)
    IN  [db |-> [d EXCEPT !.products = r.table], raised |-> r.raised]

\* One INSERT INTO product_variants per variant, each committed on its own
\* (autocommit): the first failing statement raises and the rest do not run.
RECURSIVE InsertVariants(_, _, _)
InsertVariants(d, product_id, variants) ==
    IF variants = <<>> THEN Ok(d)
    ELSE
        LET v == Head(variants)
            row == [id |-> d.auto_variants,
                    product_id |-> product_id,
                    variant_key |-> v.variant_key,
                    variant_id |-> v.variant_id,
                    variant_name |-> v.variant_name,
                    attributes_json |-> json_dumps(v.attributes),
                    price_cents |-> v.price_cents,
                    cost_cents |-> Get(v, "cost_cents", NoneInt),
                    quantity |-> Get(v, "quantity", 0),
                    width_cm |-> Get(v, "width_cm", NoneInt),
                    height_cm |-> Get(v, "height_cm", NoneInt),
                    depth_cm |-> Get(v, "depth_cm", NoneInt),
                    image_url |-> Get(v, "image_url", NULL)]
        IN  IF \/ \E c \in product_variants_not_null : IsNull(row, c)
               \/ \E r \in d.product_variants :          \* uq_product_variant
                    r.product_id = product_id /\ r.variant_key = row.variant_key
               \/ product_id \notin DOMAIN d.products    \* fk_variants_product
            THEN Raise(d)
            ELSE InsertVariants(
                    [d EXCEPT !.product_variants = @ \cup {row},
                              !.auto_variants = @ + 1],
                    product_id, Tail(variants))

\* replace_variants that deletes only the stored variants whose key the
\* envelope carries again, so a variant the envelope dropped stays.
replace_variants_merging(d, product_id, variants) ==
    InsertVariants(
        [d EXCEPT !.product_variants =
            {r \in @ : ~(/\ r.product_id = product_id
                         /\ \E i \in DOMAIN variants :
                                variants[i].variant_key = r.variant_key)}],
        product_id, variants)

\* DELETE FROM product_variants WHERE product_id = %s, then the inserts.
replace_variants(d, product_id, variants) ==
    InsertVariants(
        [d EXCEPT !.product_variants = {r \in @ : r.product_id # product_id}],
        product_id, variants)

\* delete_product against a schema whose fk_variants_product does not cascade.
delete_product_without_cascade(d, product_id) ==
    Ok([d EXCEPT
        !.products = [k \in DOMAIN d.products \ {product_id} |-> d.products[k]]])

\* DELETE FROM products WHERE product_id = %s; fk_variants_product is
\* ON DELETE CASCADE.
delete_product(d, product_id) ==
    Ok([d EXCEPT
        !.products = [k \in DOMAIN d.products \ {product_id} |-> d.products[k]],
        !.product_variants =
            IF product_id \in DOMAIN d.products
            THEN {r \in @ : r.product_id # product_id}
            ELSE @])

\* The variants list built with v.get("quantity"), without the default 0.
ProductVariantList_no_default(variants_items) ==
    [i \in DOMAIN variants_items |->
        LET key == variants_items[i][1]
            v == variants_items[i][2]
            dims == Get(v, "package_dimensions", EmptyDict)
        IN  [variant_key |-> key,
             variant_id |-> Get(v, "variant_id", NULL),
             variant_name |-> Get(v, "variant_name", NULL),
             attributes |-> Get(v, "attributes", <<>>),
             price_cents |-> Get(v, "price_cents", NoneInt),
             cost_cents |-> Get(v, "cost_cents", NoneInt),
             quantity |-> Get(v, "quantity", NoneInt),
             width_cm |-> Get(dims, "width_cm", NoneInt),
             height_cm |-> Get(dims, "height_cm", NoneInt),
             depth_cm |-> Get(dims, "depth_cm", NoneInt),
             image_url |-> Get(v, "image_url", NULL)]]

\* The list the handler builds from data.variants.items().
ProductVariantList(variants_items) ==
    [i \in DOMAIN variants_items |->
        LET key == variants_items[i][1]
            v == variants_items[i][2]
            dims == Get(v, "package_dimensions", EmptyDict)
        IN  [variant_key |-> key,
             variant_id |-> Get(v, "variant_id", NULL),
             variant_name |-> Get(v, "variant_name", NULL),
             attributes |-> Get(v, "attributes", <<>>),
             price_cents |-> Get(v, "price_cents", NoneInt),
             cost_cents |-> Get(v, "cost_cents", NoneInt),
             quantity |-> Get(v, "quantity", 0),
             width_cm |-> Get(dims, "width_cm", NoneInt),
             height_cm |-> Get(dims, "height_cm", NoneInt),
             depth_cm |-> Get(dims, "depth_cm", NoneInt),
             image_url |-> Get(v, "image_url", NULL)]]

\* _handle_product_upsert that catches the error of upsert_product and goes on
\* to the variants.
_handle_product_upsert_swallowing(d, event) ==
    LET data == Get(event, "data", EmptyDict)
        metadata == Get(data, "metadata", EmptyDict)
        stats == Get(data, "stats", EmptyDict)
        supplier_info == Get(data, "supplier_info", EmptyDict)
        parent == upsert_product(d,
            [product_id |-> Get(event, "entity_id", NULL),
             supplier_id |-> Get(data, "supplier_id", NULL),
             supplier_name |-> Get(supplier_info, "name", NULL),
             name |-> Get(data, "name", NULL),
             short_description |-> Get(data, "short_description", NULL),
             category |-> Get(data, "category", NULL),
             unit_type |-> Get(data, "unit_type", NULL),
             base_sku |-> Get(metadata, "base_sku", NULL),
             brand |-> Get(metadata, "brand", NULL),
             base_price_cents |-> Get(data, "base_price_cents", NoneInt),
             status |-> Get(data, "status", NULL),
             view_count |-> Get(stats, "view_count", 0),
             favorite_count |-> Get(stats, "favorite_count", 0),
             purchase_count |-> Get(stats, "purchase_count", 0),
             total_reviews |-> Get(stats, "total_reviews", 0),
             published_at |-> _parse_ts(Get(data, "published_at", NULL)),
             created_at |-> _parse_ts(Get(data, "created_at", NULL)),
             updated_at |-> _parse_ts(Get(data, "updated_at", NULL)),
             event_id |-> Get(event, "event_id", NULL),
             event_timestamp |-> _parse_ts(Get(event, "timestamp", NULL))])
        variants == ProductVariantList(Get(data, "variants", EmptyDict))
    IN  IF variants # <<>>
        THEN replace_variants(parent.db, Get(event, "entity_id", NULL), variants)
        ELSE parent

_handle_product_upsert(d, event) ==
    LET data == Get(event, "data", EmptyDict)
        metadata == Get(data, "metadata", EmptyDict)
        stats == Get(data, "stats", EmptyDict)
        supplier_info == Get(data, "supplier_info", EmptyDict)
        parent == upsert_product(d,
            [product_id |-> Get(event, "entity_id", NULL),
             supplier_id |-> Get(data, "supplier_id", NULL),
             supplier_name |-> Get(supplier_info, "name", NULL),
             name |-> Get(data, "name", NULL),
             short_description |-> Get(data, "short_description", NULL),
             category |-> Get(data, "category", NULL),
             unit_type |-> Get(data, "unit_type", NULL),
             base_sku |-> Get(metadata, "base_sku", NULL),
             brand |-> Get(metadata, "brand", NULL),
             base_price_cents |-> Get(data, "base_price_cents", NoneInt),
             status |-> Get(data, "status", NULL),
             view_count |-> Get(stats, "view_count", 0),
             favorite_count |-> Get(stats, "favorite_count", 0),
             purchase_count |-> Get(stats, "purchase_count", 0),
             total_reviews |-> Get(stats, "total_reviews", 0),
             published_at |-> _parse_ts(Get(data, "published_at", NULL)),
             created_at |-> _parse_ts(Get(data, "created_at", NULL)),
             updated_at |-> _parse_ts(Get(data, "updated_at", NULL)),
             event_id |-> Get(event, "event_id", NULL),
             event_timestamp |-> _parse_ts(Get(event, "timestamp", NULL))])
        variants == ProductVariantList(Get(data, "variants", EmptyDict))
    IN  IF parent.raised THEN parent
        ELSE IF variants # <<>>
        THEN replace_variants(parent.db, Get(event, "entity_id", NULL), variants)
        ELSE parent

product_deleted(d, event) ==
    LET data == Get(event, "data", EmptyDict)
    IN  delete_product(d,
            OrElse(Get(data, "product_id", NULL), Get(event, "entity_id", NULL)))

ProductIds == {"p1", "p2"}

\* One entry of Product.variants (ProductService._build_variants).
VariantDoc(variant_id, price_cents, quantity) ==
    [variant_id |-> variant_id, variant_name |-> variant_id,
     attributes |-> <<[attribute_name |-> "size", attribute_value |-> variant_id]>>,
     price_cents |-> price_cents, cost_cents |-> NoneInt, quantity |-> quantity,
     package_dimensions |-> [width_cm |-> 1, height_cm |-> 2, depth_cm |-> 3],
     image_url |-> NULL]

ProductDoc(supplier, name, status, published_at, updated_at, variants) ==
    [supplier_id |-> supplier, supplier_info |-> [name |-> supplier],
     name |-> name, short_description |-> NULL, category |-> "food",
     unit_type |-> "piece", metadata |-> [base_sku |-> NULL, brand |-> name],
     variants |-> variants, base_price_cents |-> 100, status |-> status,
     stats |-> [view_count |-> 0, favorite_count |-> 0, purchase_count |-> 0,
                total_reviews |-> 0],
     published_at |-> published_at,
     created_at |-> IsoText(1), updated_at |-> updated_at]

VariantsAB == << <<"A", VariantDoc("vA", 10, 1)>>, <<"B", VariantDoc("vB", 20, 1)>> >>
VariantsBC == << <<"B", VariantDoc("vB2", 25, 0)>>, <<"C", VariantDoc("vC", 30, 5)>> >>

ProductDocTea == ProductDoc("s1", "Tea", "draft", NULL, IsoText(1), VariantsAB)
ProductDocChai == ProductDoc("s2", "Chai", "active", IsoText(2), IsoText(2), VariantsBC)
ProductDocOutOfStock ==
    ProductDoc("s1", "Tea", "out_of_stock", IsoText(2), IsoText(2), EmptyDict)
\* A document the products table rejects (no supplier_id, category, ...), and
\* one whose second variant the product_variants table rejects (no price).
ProductDocBare == [name |-> "Tea", status |-> "draft", variants |-> VariantsBC]
ProductDocUnpriced ==
    ProductDoc("s1", "Tea", "draft", NULL, IsoText(1),
               << <<"A", VariantDoc("vA", 10, 1)>>,
                  <<"B", VariantDoc("vB", NoneInt, 1)>>,
                  <<"C", VariantDoc("vC", 30, 5)>> >>)
ProductDocs ==
    {ProductDocTea, ProductDocChai, ProductDocOutOfStock, ProductDocBare,
     ProductDocUnpriced}

\* The documents each event type carries: create and update carry any
\* document; publish_product emits the product made active,
\* discontinue_product discontinued, mark_out_of_stock out_of_stock and
\* restore_product draft again.
ProductDocsOf(type) ==
    CASE type \in {PRODUCT_CREATED, PRODUCT_UPDATED} -> ProductDocs
      [] type = PRODUCT_PUBLISHED -> {ProductDocChai}
      [] type = PRODUCT_DISCONTINUED ->
            {ProductDoc("s1", "Tea", "discontinued", IsoText(2), IsoText(2), VariantsAB)}
      [] type = PRODUCT_OUT_OF_STOCK -> {ProductDocOutOfStock}
      [] type = PRODUCT_RESTORED -> {ProductDocTea}

ProductUpsertEnvelopes(type) ==
    Combine(type, ProductIds, "p1", ProductDocsOf(type),
            IF type \in {PRODUCT_CREATED, PRODUCT_UPDATED} THEN {ProductDocTea} ELSE {})
ProductDeletedEnvelopes ==
    Combine(PRODUCT_DELETED, ProductIds, "p1", {[product_id |-> "p1"], EmptyDict},
            {[product_id |-> "p2"]})

\* The variants an upsert envelope would insert fit the ids the model hands out.
VariantIdsLeft(d, event) ==
    d.auto_variants + Len(Get(Get(event, "data", EmptyDict), "variants", EmptyDict))
        <= MaxAutoId + 1

----------------------------------------------------------------------------
(* orders, order_items: db/tables.py, dal/order_dal.py,                    *)
(* consumers/order_consumer.py                                             *)

orders_not_null ==
    {"order_id", "order_number", "customer_user_id", "status", "created_at",
     "updated_at"}
orders_on_duplicate == {"status", "updated_at", "event_id", "event_timestamp"}
order_items_not_null ==
    {"order_id", "item_id", "product_id", "supplier_id", "quantity",
     "unit_price_cents", "final_price_cents", "total_cents"}
\* An ON DUPLICATE KEY UPDATE list of insert_order_items that overwrites
\* every column of a stored item but its keys.
order_items_on_duplicate_every_column ==
    {"product_id", "supplier_id", "product_name", "variant_name",
     "variant_attributes_json", "image_url", "supplier_name", "quantity",
     "unit_price_cents", "final_price_cents", "total_cents",
     "fulfillment_status", "shipped_quantity", "tracking_number", "carrier",
     "shipped_at", "delivered_at"}

order_items_on_duplicate ==
    {"fulfillment_status", "shipped_quantity", "tracking_number", "carrier",
     "shipped_at", "delivered_at"}

\* insert_order whose ON DUPLICATE KEY UPDATE overwrites every column but
\* order_id and created_at.
insert_order_overwriting(d, p) ==
    LET byNumber == {k \in DOMAIN d.orders : d.orders[k].order_number = p.order_number}
        dup == IF p.order_id \in DOMAIN d.orders THEN {p.order_id} ELSE byNumber
    IN  IF \E c \in orders_not_null : IsNull(p, c) THEN Raise(d)
        ELSE IF dup # {}
        THEN Ok([d EXCEPT !.orders =
                [k \in DOMAIN d.orders |->
                    IF k \in dup
                    THEN [c \in DOMAIN p |->
                            IF c \in {"order_id", "created_at"}
                            THEN d.orders[k][c] ELSE p[c]]
                    ELSE d.orders[k]]])
        ELSE Ok([d EXCEPT !.orders =
                [k \in DOMAIN d.orders \cup {p.order_id} |->
                    IF k = p.order_id THEN p ELSE d.orders[k]]])

\* insert_order that validates the transition: a stored order that is
\* cancelled keeps its status.
insert_order_keeping_cancelled(d, p) ==
    LET byNumber == {k \in DOMAIN d.orders : d.orders[k].order_number = p.order_number}
        dup == IF p.order_id \in DOMAIN d.orders THEN {p.order_id} ELSE byNumber
    IN  IF \E c \in orders_not_null : IsNull(p, c) THEN Raise(d)
        ELSE IF dup # {}
        THEN Ok([d EXCEPT !.orders =
                [k \in DOMAIN d.orders |->
                    IF k \in dup
                    THEN [c \in DOMAIN p |->
                            IF /\ c \in orders_on_duplicate
                               /\ ~(c = "status" /\ d.orders[k].status = "cancelled")
                            THEN p[c] ELSE d.orders[k][c]]
                    ELSE d.orders[k]]])
        ELSE Ok([d EXCEPT !.orders =
                [k \in DOMAIN d.orders \cup {p.order_id} |->
                    IF k = p.order_id THEN p ELSE d.orders[k]]])

\* INSERT INTO orders ... ON DUPLICATE KEY UPDATE.  orders has two unique
\* keys, the primary key order_id and uq_order_number: the row that holds the
\* incoming order_id, else the row that holds the incoming order_number, is
\* the duplicate, and it is updated instead of a row being inserted.
insert_order(d, p) ==
    LET byNumber == {k \in DOMAIN d.orders : d.orders[k].order_number = p.order_number}
        dup == IF p.order_id \in DOMAIN d.orders THEN {p.order_id} ELSE byNumber
    IN  IF \E c \in orders_not_null : IsNull(p, c) THEN Raise(d)
        ELSE IF dup # {}
        THEN Ok([d EXCEPT !.orders =
                [k \in DOMAIN d.orders |->
                    IF k \in dup
                    THEN [c \in DOMAIN p |->
                            IF c \in orders_on_duplicate THEN p[c] ELSE d.orders[k][c]]
                    ELSE d.orders[k]]])
        ELSE Ok([d EXCEPT !.orders =
                [k \in DOMAIN d.orders \cup {p.order_id} |->
                    IF k = p.order_id THEN p ELSE d.orders[k]]])

\* One INSERT INTO order_items ... ON DUPLICATE KEY UPDATE per item, each
\* committed on its own (autocommit); uq_order_item is (order_id, item_id).
RECURSIVE insert_order_items(_, _, _)
insert_order_items(d, order_id, items) ==
    IF items = <<>> THEN Ok(d)
    ELSE
        LET item == Head(items)
            row == [id |-> d.auto_items,
                    order_id |-> order_id,
                    item_id |-> item.item_id,
                    product_id |-> item.product_id,
                    supplier_id |-> item.supplier_id,
                    product_name |-> item.product_name,
                    variant_name |-> Get(item, "variant_name", NULL),
                    variant_attributes_json |->
                        json_dumps(Get(item, "variant_attributes", EmptyDict)),
                    image_url |-> Get(item, "image_url", NULL),
                    supplier_name |-> Get(item, "supplier_name", NULL),
                    quantity |-> item.quantity,
                    unit_price_cents |-> item.unit_price_cents,
                    final_price_cents |-> item.final_price_cents,
                    total_cents |-> item.total_cents,
                    fulfillment_status |-> Get(item, "fulfillment_status", "pending"),
                    shipped_quantity |-> Get(item, "shipped_quantity", 0),
                    tracking_number |-> Get(item, "tracking_number", NULL),
                    carrier |-> Get(item, "carrier", NULL),
                    shipped_at |-> Get(item, "shipped_at", NULL),
                    delivered_at |-> Get(item, "delivered_at", NULL)]
            dup == {r \in d.order_items :
                        r.order_id = order_id /\ r.item_id = row.item_id}
        IN  IF \E c \in order_items_not_null : IsNull(row, c) THEN Raise(d)
            ELSE IF dup # {}
            THEN insert_order_items(
                    [d EXCEPT !.order_items =
                        {IF r \in dup
                         THEN [c \in DOMAIN r |->
                                IF c \in order_items_on_duplicate THEN row[c] ELSE r[c]]
                         ELSE r : r \in d.order_items}],
                    order_id, Tail(items))
            ELSE IF order_id \notin DOMAIN d.orders      \* fk_items_order
            THEN Raise(d)
            ELSE insert_order_items(
                    [d EXCEPT !.order_items = @ \cup {row},
                              !.auto_items = @ + 1],
                    order_id, Tail(items))

\* cancel_order that sets the status alone and leaves the audit columns.
cancel_order_without_audit(d, order_number, event_id, event_timestamp) ==
    Ok([d EXCEPT !.orders =
        [k \in DOMAIN d.orders |->
            IF order_number # NULL /\ d.orders[k].order_number = order_number
            THEN [d.orders[k] EXCEPT !.status = "cancelled"]
            ELSE d.orders[k]]])

\* UPDATE orders SET status = 'cancelled', event_id, event_timestamp
\* WHERE order_number = %s
cancel_order(d, order_number, event_id, event_timestamp) ==
    Ok([d EXCEPT !.orders =
        [k \in DOMAIN d.orders |->
            IF order_number # NULL /\ d.orders[k].order_number = order_number
            THEN [d.orders[k] EXCEPT !.status = "cancelled",
                                     !.event_id = event_id,
                                     !.event_timestamp = event_timestamp]
            ELSE d.orders[k]]])

\* The list the handler builds from data.items.
OrderItemList(items_data) ==
    [i \in DOMAIN items_data |->
        LET item == items_data[i]
            snapshot == Get(item, "product_snapshot", EmptyDict)
        IN  [item_id |-> Get(item, "item_id", NULL),
             product_id |-> Get(snapshot, "product_id", NULL),
             supplier_id |-> Get(snapshot, "supplier_id", NULL),
             product_name |-> Get(snapshot, "product_name", NULL),
             variant_name |-> Get(snapshot, "variant_name", NULL),
             variant_attributes |-> Get(snapshot, "variant_attributes", EmptyDict),
             image_url |-> Get(snapshot, "image_url", NULL),
             supplier_name |-> Get(snapshot, "supplier_name", NULL),
             quantity |-> Get(item, "quantity", NoneInt),
             unit_price_cents |-> Get(item, "unit_price_cents", NoneInt),
             final_price_cents |-> Get(item, "final_price_cents", NoneInt),
             total_cents |-> Get(item, "total_cents", NoneInt),
             fulfillment_status |-> Get(item, "fulfillment_status", "pending"),
             shipped_quantity |-> Get(item, "shipped_quantity", 0),
             tracking_number |-> Get(item, "tracking_number", NULL),
             carrier |-> Get(item, "carrier", NULL),
             shipped_at |-> _parse_ts(Get(item, "shipped_at", NULL)),
             delivered_at |-> _parse_ts(Get(item, "delivered_at", NULL))]]

order_created(d, event) ==
    LET data == Get(event, "data", EmptyDict)
        customer == Get(data, "customer", EmptyDict)
        shipping == Get(data, "shipping_address", EmptyDict)
        parent == insert_order(d,
            [order_id |-> Get(event, "entity_id", NULL),
             order_number |-> Get(data, "order_number", NULL),
             customer_user_id |-> Get(customer, "user_id", NULL),
             customer_display_name |-> Get(customer, "display_name", NULL),
             customer_email |-> Get(customer, "email", NULL),
             customer_phone |-> Get(customer, "phone", NULL),
             shipping_recipient_name |-> Get(shipping, "recipient_name", NULL),
             shipping_phone |-> Get(shipping, "phone", NULL),
             shipping_street_1 |-> Get(shipping, "street_address_1", NULL),
             shipping_street_2 |-> Get(shipping, "street_address_2", NULL),
             shipping_city |-> Get(shipping, "city", NULL),
             shipping_state |-> Get(shipping, "state", NULL),
             shipping_zip_code |-> Get(shipping, "zip_code", NULL),
             shipping_country |-> Get(shipping, "country", NULL),
             status |-> Get(data, "status", "pending"),
             created_at |-> _parse_ts(Get(data, "created_at", NULL)),
             updated_at |-> _parse_ts(Get(data, "updated_at", NULL)),
             event_id |-> Get(event, "event_id", NULL),
             event_timestamp |-> _parse_ts(Get(event, "timestamp", NULL))])
        items == OrderItemList(Get(data, "items", <<>>))
    IN  IF parent.raised THEN parent
        ELSE IF items # <<>>
        THEN insert_order_items(parent.db, Get(event, "entity_id", NULL), items)
        ELSE parent

\* handle_order_cancelled locating the row by the envelope's entity_id
\* (WHERE order_id = %s) instead of by data.order_number.
order_cancelled_by_entity_id(d, event) ==
    Ok([d EXCEPT !.orders =
        [k \in DOMAIN d.orders |->
            IF k = Get(event, "entity_id", NULL)
            THEN [d.orders[k] EXCEPT
                    !.status = "cancelled",
                    !.event_id = Get(event, "event_id", NULL),
                    !.event_timestamp = _parse_ts(Get(event, "timestamp", NULL))]
            ELSE d.orders[k]]])

order_cancelled(d, event) ==
    LET data == Get(event, "data", EmptyDict)
    IN  cancel_order(d,
            Get(data, "order_number", NULL),
            Get(event, "event_id", NULL),
            _parse_ts(Get(event, "timestamp", NULL)))

OrderIds == {"o1", "o2"}
OrderNumbers == {"ORD-1", "ORD-2"}

\* One entry of Order.items (build_order_item).
ItemDoc(item_id, product, quantity, fulfillment_status, shipped_quantity, shipped_at) ==
    [item_id |-> item_id,
     product_snapshot |-> [product_id |-> product, supplier_id |-> "s1",
                           product_name |-> product, variant_name |-> NULL,
                           variant_attributes |-> EmptyDict,
                           image_url |-> "img", supplier_name |-> "Acme"],
     quantity |-> quantity, unit_price_cents |-> 100, final_price_cents |-> 100,
     fulfillment_status |-> fulfillment_status,
     shipped_quantity |-> shipped_quantity,
     tracking_number |-> NULL, carrier |-> NULL,
     shipped_at |-> shipped_at, delivered_at |-> NULL,
     total_cents |-> 100 * quantity]

OrderDoc(order_number, user, city, status, updated_at, items) ==
    [order_number |-> order_number,
     customer |-> [user_id |-> user, display_name |-> user,
                   email |-> user \o "@b.com", phone |-> NULL],
     items |-> items,
     shipping_address |-> [recipient_name |-> user, phone |-> NULL,
                           street_address_1 |-> "1 Main", street_address_2 |-> NULL,
                           city |-> city, state |-> "HA", zip_code |-> "1",
                           country |-> "IL"],
     status |-> status, created_at |-> IsoText(1), updated_at |-> updated_at]

OrderDocOne ==
    OrderDoc("ORD-1", "u1", "Haifa", "pending", IsoText(1),
             <<ItemDoc("item_1", "p1", 1, "pending", 0, NULL),
               ItemDoc("item_2", "p2", 1, "pending", 0, NULL)>>)
\* An order document without status and without items.
OrderDocNoStatus ==
    [c \in DOMAIN OrderDocOne \ {"status", "items"} |-> OrderDocOne[c]]
OrderDocs ==
    {OrderDocOne,
     OrderDoc("ORD-2", "u2", "Eilat", "confirmed", IsoText(2),
              <<ItemDoc("item_1", "p2", 2, "shipped", 2, IsoText(2))>>),
     OrderDocNoStatus,
     [order_number |-> "ORD-1"]}

OrderCreatedEnvelopes ==
    Combine(ORDER_CREATED, OrderIds, "o1", OrderDocs, {OrderDocOne})
\* cancel_order emits data {order_number} of the order it cancelled.
OrderCancelledEnvelopes ==
    Combine(ORDER_CANCELLED, OrderIds, "o1",
            {[order_number |-> n] : n \in OrderNumbers},
            {[order_number |-> "ORD-1"]})

\* The items an order.created envelope would insert fit the ids the model hands out.
ItemIdsLeft(d, event) ==
    d.auto_items + Len(Get(Get(event, "data", EmptyDict), "items", <<>>))
        <= MaxAutoId + 1

----------------------------------------------------------------------------
(* posts: db/tables.py, dal/post_dal.py, consumers/post_consumer.py *)

posts_not_null ==
    {"post_id", "post_type", "author_user_id", "created_at", "updated_at"}
posts_on_duplicate ==
    {"post_type", "author_display_name", "author_avatar", "text_content",
     "media_json", "link_url", "link_title", "link_description", "link_image",
     "link_site_name", "view_count", "like_count", "comment_count",
     "share_count", "save_count", "engagement_rate", "last_comment_at",
     "deleted_at", "published_at", "updated_at", "event_id", "event_timestamp"}

\* upsert_post whose ON DUPLICATE KEY UPDATE adds the incoming view_count to
\* the stored one instead of replacing it.
upsert_post_accumulating(d, p) ==
    LET r == InsertOnDuplicateKeyUpdate(d.posts, p.post_id, p,
                                        posts_not_null, posts_on_duplicate)
    IN  [db |-> [d EXCEPT !.posts =
                    IF p.post_id \in DOMAIN d.posts /\ ~r.raised
                    THEN [r.table EXCEPT ![p.post_id].view_count =
                             d.posts[p.post_id].view_count + p.view_count]
                    ELSE r.table],
         raised |-> r.raised]

upsert_post(d, p) ==
    LET r == InsertOnDuplicateKeyUpdate(d.posts, p.post_id, p,
                                        posts_not_null, posts_on_duplicate)
    IN  [db |-> [d EXCEPT !.posts = r.table], raised |-> r.raised]

\* soft_delete_post that also touches updated_at.
soft_delete_post_touching(d, post_id, event_id, event_timestamp, now) ==
    Ok([d EXCEPT !.posts =
        [k \in DOMAIN d.posts |->
            IF k = post_id
            THEN [d.posts[k] EXCEPT !.deleted_at = NOW(now),
                                    !.updated_at = NOW(now),
                                    !.event_id = event_id,
                                    !.event_timestamp = event_timestamp]
            ELSE d.posts[k]]])

\* UPDATE posts SET deleted_at = NOW(6), event_id, event_timestamp WHERE post_id = %s
soft_delete_post(d, post_id, event_id, event_timestamp, now) ==
    Ok([d EXCEPT !.posts =
        [k \in DOMAIN d.posts |->
            IF k = post_id
            THEN [d.posts[k] EXCEPT !.deleted_at = NOW(now),
                                    !.event_id = event_id,
                                    !.event_timestamp = event_timestamp]
            ELSE d.posts[k]]])

\* None in a slot that otherwise holds a dict (link_preview: null).
NoneDict == [None |-> NULL]
\* x or {}
OrEmptyDict(x) == IF x = NoneDict \/ x = EmptyDict THEN EmptyDict ELSE x

_handle_post_upsert(d, event) ==
    LET data == Get(event, "data", EmptyDict)
        author == Get(data, "author", EmptyDict)
        stats == Get(data, "stats", EmptyDict)
        link == OrEmptyDict(Get(data, "link_preview", NoneDict))
        media == Get(data, "media", <<>>)
    IN  upsert_post(d,
            [post_id |-> Get(event, "entity_id", NULL),
             post_type |-> Get(data, "post_type", NULL),
             author_user_id |-> Get(author, "user_id", NULL),
             author_display_name |-> Get(author, "display_name", NULL),
             author_avatar |-> Get(author, "avatar", NULL),
             author_type |-> Get(author, "author_type", NULL),
             text_content |-> Get(data, "text_content", NULL),
             media_json |-> IF media # <<>> THEN json_dumps(media) ELSE NULL,
             link_url |-> Get(link, "url", NULL),
             link_title |-> Get(link, "title", NULL),
             link_description |-> Get(link, "description", NULL),
             link_image |-> Get(link, "image", NULL),
             link_site_name |-> Get(link, "site_name", NULL),
             view_count |-> Get(stats, "view_count", 0),
             like_count |-> Get(stats, "like_count", 0),
             comment_count |-> Get(stats, "comment_count", 0),
             share_count |-> Get(stats, "share_count", 0),
             save_count |-> Get(stats, "save_count", 0),
             engagement_rate |-> Get(stats, "engagement_rate", 0),
             last_comment_at |-> _parse_ts(Get(stats, "last_comment_at", NULL)),
             deleted_at |-> _parse_ts(Get(data, "deleted_at", NULL)),
             published_at |-> _parse_ts(Get(data, "published_at", NULL)),
             created_at |-> _parse_ts(Get(data, "created_at", NULL)),
             updated_at |-> _parse_ts(Get(data, "updated_at", NULL)),
             event_id |-> Get(event, "event_id", NULL),
             event_timestamp |-> _parse_ts(Get(event, "timestamp", NULL))])

post_deleted(d, event, now) ==
    LET data == Get(event, "data", EmptyDict)
    IN  soft_delete_post(d,
            OrElse(Get(data, "post_id", NULL), Get(event, "entity_id", NULL)),
            Get(event, "event_id", NULL),
            _parse_ts(Get(event, "timestamp", NULL)),
            now)

PostIds == {"q1", "q2"}
PostDocHello ==
     [post_type |-> "text",
      author |-> [user_id |-> "u1", display_name |-> "Ann", avatar |-> "ann.png",
                  author_type |-> "user"],
      text_content |-> "hello", media |-> <<>>, link_preview |-> NoneDict,
      stats |-> [view_count |-> 0, like_count |-> 0, comment_count |-> 0,
                 share_count |-> 0, save_count |-> 0, engagement_rate |-> 0,
                 last_comment_at |-> NULL],
      deleted_at |-> NULL, published_at |-> NULL,
      created_at |-> IsoText(1), updated_at |-> IsoText(1)]
PostDocLink ==
     [post_type |-> "link",
      author |-> [user_id |-> "u2", display_name |-> "Cat", avatar |-> "cat.png",
                  author_type |-> "leader"],
      text_content |-> "look",
      media |-> <<[media_type |-> "image", media_url |-> "m.png"]>>,
      link_preview |-> [url |-> "http://x", title |-> "X", description |-> NULL,
                        image |-> NULL, site_name |-> "x"],
      stats |-> [view_count |-> 3, like_count |-> 2, comment_count |-> 1,
                 share_count |-> 0, save_count |-> 0, engagement_rate |-> 1,
                 last_comment_at |-> IsoText(2)],
      deleted_at |-> NULL, published_at |-> IsoText(2),
      created_at |-> IsoText(2), updated_at |-> IsoText(2)]
PostDocs == {PostDocHello, PostDocLink, [text_content |-> "hello"]}

\* publish_post emits the post with published_at set.
PostUpsertEnvelopes(type) ==
    IF type = POST_PUBLISHED
    THEN Combine(type, PostIds, "q1", {PostDocLink}, {})
    ELSE Combine(type, PostIds, "q1", PostDocs, {PostDocHello})
PostDeletedEnvelopes ==
    Combine(POST_DELETED, PostIds, "q1", {[post_id |-> "q1"], EmptyDict},
            {[post_id |-> "q2"]})

----------------------------------------------------------------------------
(* The consumer: one handler call per delivered message *)

EmptyStore ==
    [users |-> EmptyDict, suppliers |-> EmptyDict, products |-> EmptyDict,
     product_variants |-> {}, orders |-> EmptyDict, order_items |-> {},
     posts |-> EmptyDict, auto_variants |-> 1, auto_items |-> 1]

\* The handler of a delivered envelope ran with database time `now` and
\* left result r.
Handled(event, r, now) ==
    /\ db' = r.db
    /\ raised' = r.raised
    /\ last' = event
    /\ pre' = db
    /\ clock' = now
    /\ UNCHANGED <<subscribed, handlers, bus, committed, consumer, emitted, handled, pool, mongo, call>>

handle_user_created ==
    /\ "user" \in subscribed
    /\ \E event \in UserUpsertEnvelopes(USER_CREATED) :
        Handled(event, _handle_user_upsert(db, event), clock)

handle_user_updated ==
    /\ "user" \in subscribed
    /\ \E event \in UserUpsertEnvelopes(USER_UPDATED) :
        Handled(event, _handle_user_upsert(db, event), clock)

handle_user_deleted ==
    /\ "user" \in subscribed
    /\ \E event \in UserDeletedEnvelopes, now \in clock..MaxClock :
        Handled(event, user_deleted(db, event, now), now)

handle_supplier_created ==
    /\ "supplier" \in subscribed
    /\ \E event \in SupplierUpsertEnvelopes(SUPPLIER_CREATED) :
        Handled(event, _handle_supplier_upsert(db, event), clock)

handle_supplier_updated ==
    /\ "supplier" \in subscribed
    /\ \E event \in SupplierUpsertEnvelopes(SUPPLIER_UPDATED) :
        Handled(event, _handle_supplier_upsert(db, event), clock)

handle_supplier_deleted ==
    /\ "supplier" \in subscribed
    /\ \E event \in SupplierDeletedEnvelopes :
        Handled(event, supplier_deleted(db, event), clock)

ProductUpsertHandled(type) ==
    /\ "product" \in subscribed
    /\ \E event \in ProductUpsertEnvelopes(type) :
        /\ VariantIdsLeft(db, event)
        /\ Handled(event, _handle_product_upsert(db, event), clock)

handle_product_created == ProductUpsertHandled(PRODUCT_CREATED)
handle_product_updated == ProductUpsertHandled(PRODUCT_UPDATED)
handle_product_published == ProductUpsertHandled(PRODUCT_PUBLISHED)
handle_product_discontinued == ProductUpsertHandled(PRODUCT_DISCONTINUED)
handle_product_out_of_stock == ProductUpsertHandled(PRODUCT_OUT_OF_STOCK)
handle_product_restored == ProductUpsertHandled(PRODUCT_RESTORED)

handle_product_deleted ==
    /\ "product" \in subscribed
    /\ \E event \in ProductDeletedEnvelopes :
        Handled(event, product_deleted(db, event), clock)

handle_order_created ==
    /\ "order" \in subscribed
    /\ \E event \in OrderCreatedEnvelopes :
        /\ ItemIdsLeft(db, event)
        /\ Handled(event, order_created(db, event), clock)

handle_order_cancelled ==
    /\ "order" \in subscribed
    /\ \E event \in OrderCancelledEnvelopes :
        Handled(event, order_cancelled(db, event), clock)

handle_post_created ==
    /\ "post" \in subscribed
    /\ \E event \in PostUpsertEnvelopes(POST_CREATED) :
        Handled(event, _handle_post_upsert(db, event), clock)

handle_post_updated ==
    /\ "post" \in subscribed
    /\ \E event \in PostUpsertEnvelopes(POST_UPDATED) :
        Handled(event, _handle_post_upsert(db, event), clock)

handle_post_published ==
    /\ "post" \in subscribed
    /\ \E event \in PostUpsertEnvelopes(POST_PUBLISHED) :
        Handled(event, _handle_post_upsert(db, event), clock)

handle_post_deleted ==
    /\ "post" \in subscribed
    /\ \E event \in PostDeletedEnvelopes, now \in clock..MaxClock :
        Handled(event, post_deleted(db, event, now), now)

NoMessage == EmptyDict
Message(tp, offset) == [tp |-> tp, offset |-> offset]
EventOf(msg) == bus[msg.tp][msg.offset + 1]

\* The consumer process after __init__, subscribe() and the first rebalance:
\* it fetches every partition from the group's committed offset
\* (auto.offset.reset = earliest when there is none).
NewConsumer(restarts) ==
    [running |-> TRUE, state |-> "poll", position |-> committed,
     inflight |-> NoMessage, interrupted |-> NoMessage, restarts |-> restarts]


\* The pool of Database.connect(): pool_size connections, none checked out,
\* and no DAL call in progress.
pool_size == 5
IdlePool == [checked_out |-> 0, pc |-> "idle", todo |-> <<>>]

\* The documents the primary store holds when the services start.
SeedDocuments ==
    [users |-> [id \in {"u1"} |->
                    [email |-> "a@b.com", display_name |-> "Ann", deleted_at |-> NULL]],
     suppliers |-> [id \in {"s1"} |-> [product_ids |-> {"p1"}]],
     products |-> [id \in {"p1"} |->
                    [supplier_id |-> "s1", name |-> "Tea", status |-> "active",
                     published_at |-> NULL]],
     posts |-> [id \in {"q1"} |->
                    [author |-> "u1", text_content |-> "hello", deleted_at |-> NULL,
                     published_at |-> NULL]],
     orders |-> [id \in {"o1"} |-> [order_number |-> "ORD-1", status |-> "confirmed"]]]

\* No service operation has been called yet.
NoCall == [operation |-> NULL, entity_id |-> NULL, error |-> NULL]

\* After connect(), init_tables() and subscribe(topics): the tables exist and
\* are empty.  Each consumer process of the model subscribes to one topic.
Init ==
    /\ db = EmptyStore
    /\ clock = 1
    /\ subscribed \in {{t} : t \in Topic_all}
    /\ last = NoEvent
    /\ pre = EmptyStore
    /\ raised = FALSE
    /\ bus = [tp \in TopicPartitions |-> <<>>]
    /\ committed = [tp \in TopicPartitions |-> 0]
    /\ consumer = NewConsumer(0)
    /\ emitted = <<>>
    /\ handled = <<>>
    /\ pool = IdlePool
    /\ mongo = SeedDocuments
    /\ call = NoCall
    /\ handlers = AssembledHandlers

NextUser == handle_user_created \/ handle_user_updated \/ handle_user_deleted

NextSupplier ==
    handle_supplier_created \/ handle_supplier_updated \/ handle_supplier_deleted

NextProduct ==
    \/ handle_product_created
    \/ handle_product_updated
    \/ handle_product_published
    \/ handle_product_discontinued
    \/ handle_product_out_of_stock
    \/ handle_product_restored
    \/ handle_product_deleted

NextOrder == handle_order_created \/ handle_order_cancelled

NextPost ==
    \/ handle_post_created
    \/ handle_post_updated
    \/ handle_post_published
    \/ handle_post_deleted

Next == NextUser \/ NextSupplier \/ NextProduct \/ NextOrder \/ NextPost

Spec == Init /\ [][Next]_vars

\* The consumer subscribed to one given topic.
InitUser == Init /\ subscribed = {"user"}
SpecUser == InitUser /\ [][NextUser]_vars
InitSupplier == Init /\ subscribed = {"supplier"}
SpecSupplier == InitSupplier /\ [][NextSupplier]_vars
InitProduct == Init /\ subscribed = {"product"}
SpecProduct == InitProduct /\ [][NextProduct]_vars
InitOrder == Init /\ subscribed = {"order"}
SpecOrder == InitOrder /\ [][NextOrder]_vars
InitPost == Init /\ subscribed = {"post"}
SpecPost == InitPost /\ [][NextPost]_vars

----------------------------------------------------------------------------
(* The dispatch table: get_handlers() of the five consumers *)

UserUpsertTypes == {USER_CREATED, USER_UPDATED}
SupplierUpsertTypes == {SUPPLIER_CREATED, SUPPLIER_UPDATED}
ProductUpsertTypes ==
    {PRODUCT_CREATED, PRODUCT_UPDATED, PRODUCT_PUBLISHED, PRODUCT_DISCONTINUED,
     PRODUCT_OUT_OF_STOCK, PRODUCT_RESTORED}
PostUpsertTypes == {POST_CREATED, POST_UPDATED, POST_PUBLISHED}
UpsertTypes ==
    UserUpsertTypes \cup SupplierUpsertTypes \cup ProductUpsertTypes
    \cup PostUpsertTypes \cup {ORDER_CREATED}

DeleteAndCancelTypes ==
    {USER_DELETED, POST_DELETED, SUPPLIER_DELETED, PRODUCT_DELETED, ORDER_CANCELLED}

\* What the handler registered for the envelope's event_type does to store d.
get_handlers(d, event, now) ==
    CASE event.event_type \in UserUpsertTypes -> _handle_user_upsert(d, event)
      [] event.event_type = USER_DELETED -> user_deleted(d, event, now)
      [] event.event_type \in SupplierUpsertTypes -> _handle_supplier_upsert(d, event)
      [] event.event_type = SUPPLIER_DELETED -> supplier_deleted(d, event)
      [] event.event_type \in ProductUpsertTypes -> _handle_product_upsert(d, event)
      [] event.event_type = PRODUCT_DELETED -> product_deleted(d, event)
      [] event.event_type = ORDER_CREATED -> order_created(d, event)
      [] event.event_type = ORDER_CANCELLED -> order_cancelled(d, event)
      [] event.event_type \in PostUpsertTypes -> _handle_post_upsert(d, event)
      [] event.event_type = POST_DELETED -> post_deleted(d, event, now)

----------------------------------------------------------------------------
(* The bus, the producer and the poll loop:                                *)
(* apps/mongo_backend/kafka/producer.py, shared/kafka/config.py,           *)
(* apps/mysql_server/src/kafka/consumer.py                                 *)

\* An event type no consumer registers a handler for.
USER_ARCHIVED == "user.archived"

\* The entity prefix of an event type, "<entity>.<action>".
TopicOf(event_type) ==
    CASE event_type \in UserUpsertTypes \cup {USER_DELETED, USER_ARCHIVED} -> "user"
      [] event_type \in SupplierUpsertTypes \cup {SUPPLIER_DELETED} -> "supplier"
      [] event_type \in ProductUpsertTypes \cup {PRODUCT_DELETED} -> "product"
      [] event_type \in {ORDER_CREATED, ORDER_CANCELLED} -> "order"
      [] event_type \in PostUpsertTypes \cup {POST_DELETED} -> "post"

\* The default partitioner: the hash of the key modulo the number of
\* partitions; the keys of the model hash to 1 or to 2.
partitioner(key) ==
    (IF key \in {"u1", "e1", "e3"} THEN 1 ELSE 2) % NumPartitions

\* emit keyed by the envelope's event_id.
partition_key_event_id(event) == event.event_id

\* The partition key emit() passes to send(): the entity id.
partition_key(event) == event.entity_id

\* The emit() calls of the producing services the model follows.
Emissions ==
    {<<USER_CREATED, "u1", UserDocAnn>>,
     <<USER_UPDATED, "u1", UserDocCat>>,
     <<USER_ARCHIVED, "u1", UserDocAnn>>,
     <<SUPPLIER_DELETED, "s1", [supplier_id |-> "s1"]>>}

\* emit(event_type, entity_id, data): the envelope gets a fresh id and the
\* current time and is appended to the partition of its key in the topic of
\* its event type.
emit(event_type, entity_id, data) ==
    /\ Len(emitted) < MaxInstant
    /\ LET event == Envelope(event_type, entity_id, Stamp(Len(emitted) + 1), data)
           tp == <<TopicOf(event_type), partitioner(partition_key(event))>>
       IN  /\ bus' = [bus EXCEPT ![tp] = Append(@, event)]
           /\ emitted' = Append(emitted, event)
    /\ UNCHANGED <<db, clock, subscribed, handlers, last, pre, raised, committed, consumer, handled, pool>>

\* The event types with a handler in the table assembled by register_handler
\* from get_handlers() of the five consumers.
registered == UpsertTypes \cup DeleteAndCancelTypes

\* _process_message that indexes the handler table (handlers[event_type]), so
\* that an unknown event type raises.
_process_message_strict(d, event, now) ==
    IF Get(event, "event_type", NULL) \in registered
    THEN get_handlers(d, event, now)
    ELSE Raise(d)

\* _process_message: look up the handler of the event type and call it; an
\* unknown event type is logged and skipped.
_process_message(d, event, now) ==
    IF Get(event, "event_type", NULL) \in registered
    THEN get_handlers(d, event, now)
    ELSE Ok(d)

\* One iteration of the loop in start() that gets a message: poll() hands the
\* next message of an assigned partition to the application, and with
\* enable.auto.offset.store left at its default the offset after it is stored
\* for commit at that moment.
poll ==
    /\ consumer.state = "poll"
    /\ consumer.running
    /\ \E tp \in TopicPartitions :
        /\ tp[1] \in subscribed
        /\ consumer.position[tp] < Len(bus[tp])
        /\ consumer' = [consumer EXCEPT
                !.state = "process",
                !.inflight = Message(tp, consumer.position[tp]),
                !.position[tp] = @ + 1]
    /\ UNCHANGED <<db, clock, subscribed, handlers, last, pre, raised, bus, committed, emitted, handled, pool, mongo, call>>

\* The rest of that iteration: _process_message(msg) runs the handler to its
\* end; a database error of the handler leaves start().
process_message ==
    /\ consumer.state = "process"
    /\ LET msg == consumer.inflight
           event == EventOf(msg)
       IN  \E now \in IF event.event_type \in {USER_DELETED, POST_DELETED}
                      THEN clock..MaxClock ELSE {clock} :
            LET r == _process_message(db, event, now)
            IN  /\ db' = r.db
                /\ raised' = r.raised
                /\ last' = event
                /\ pre' = db
                /\ clock' = now
                /\ handled' = IF r.raised THEN handled ELSE Append(handled, msg)
                /\ consumer' = [consumer EXCEPT
                        !.inflight = NoMessage,
                        !.state = IF r.raised THEN "failed" ELSE "poll"]
    /\ UNCHANGED <<subscribed, handlers, bus, committed, emitted, pool, mongo, call>>

\* enable.auto.commit with auto.commit.interval.ms = 5000: every interval the
\* client's background thread commits the stored offsets, whatever the
\* application thread is doing.
auto_commit ==
    /\ consumer.state \in {"poll", "process"}
    /\ committed # consumer.position
    /\ committed' = consumer.position
    /\ UNCHANGED <<db, clock, subscribed, handlers, last, pre, raised, bus, consumer, emitted, handled, pool, mongo, call>>

\* A signal handler that calls close() on the consumer itself.
_signal_handler_closing(c) ==
    [c EXCEPT !.running = FALSE, !.interrupted = c.inflight, !.state = "closed"]

\* The handler of SIGINT / SIGTERM: it sets the flag and nothing else.
_signal_handler(c) ==
    [c EXCEPT !.running = FALSE, !.interrupted = c.inflight]

signal ==
    /\ consumer.state \in {"poll", "process"}
    /\ consumer.running
    /\ consumer' = _signal_handler(consumer)
    /\ UNCHANGED <<db, clock, subscribed, handlers, last, pre, raised, bus, committed, emitted, handled, pool, mongo, call>>

\* The loop condition read at the top of an iteration is false: start()
\* leaves the loop and the consumer is closed; close() commits the stored
\* offsets a last time.
close ==
    /\ consumer.state = "poll"
    /\ ~consumer.running
    /\ consumer' = [consumer EXCEPT !.state = "closed"]
    /\ committed' = consumer.position
    /\ UNCHANGED <<db, clock, subscribed, handlers, last, pre, raised, bus, emitted, handled, pool, mongo, call>>

\* The process dies (kill -9, power) at any point of the loop, between poll()
\* and the end of the handler included.
crash ==
    /\ consumer.state \in {"poll", "process"}
    /\ consumer' = [consumer EXCEPT !.state = "dead", !.inflight = NoMessage]
    /\ UNCHANGED <<db, clock, subscribed, handlers, last, pre, raised, bus, committed, emitted, handled, pool, mongo, call>>

\* A process that died is started again, MaxRestarts times at most.
MaxRestarts == 1
restart ==
    /\ consumer.state \in {"dead", "failed"}
    /\ consumer.restarts < MaxRestarts
    /\ consumer' = NewConsumer(consumer.restarts + 1)
    /\ UNCHANGED <<db, clock, subscribed, handlers, last, pre, raised, bus, committed, emitted, handled, pool, mongo, call>>

\* The consumer of main.py: subscribed to every topic.
InitLoop ==
    /\ db = EmptyStore
    /\ clock = 1
    /\ subscribed = Topic_all
    /\ last = NoEvent
    /\ pre = EmptyStore
    /\ raised = FALSE
    /\ bus = [tp \in TopicPartitions |-> <<>>]
    /\ committed = [tp \in TopicPartitions |-> 0]
    /\ consumer = NewConsumer(0)
    /\ emitted = <<>>
    /\ handled = <<>>
    /\ pool = IdlePool
    /\ mongo = SeedDocuments
    /\ call = NoCall
    /\ handlers = AssembledHandlers

\* The steps of a running loop, of the producers and of the client's
\* background thread.
NextConsume ==
    \/ \E e \in Emissions : emit(e[1], e[2], e[3]) /\ UNCHANGED <<mongo, call>>
    \/ poll
    \/ process_message
    \/ auto_commit

NextLoop == NextConsume \/ crash \/ restart

NextShutdown == NextConsume \/ signal \/ close

SpecLoop == InitLoop /\ [][NextLoop]_vars

\* The loop without process deaths; the single thread of start() keeps
\* running: an iteration that can get a message gets one, a handler that was
\* called returns, and a loop whose flag is down is left.
SpecShutdown ==
    /\ InitLoop
    /\ [][NextShutdown]_vars
    /\ WF_vars(poll)
    /\ WF_vars(process_message)
    /\ WF_vars(close)

----------------------------------------------------------------------------
(* Envelopes whose data lacks optional nested objects and collections      *)

\* A document without the given keys.
Without(doc, keys) == [c \in DOMAIN doc \ keys |-> doc[c]]

\* Documents as an older or foreign producer may send them: required scalars
\* only, with one or more of the optional nested objects, collections and
\* fields left out.
SparseDocs(type) ==
    CASE type = USER_CREATED ->
            {[contact_info |-> [primary_email |-> "a@b.com"],
              profile |-> [display_name |-> "Ann"],
              created_at |-> IsoText(1), updated_at |-> IsoText(1)],
             Without(UserDocAnn, {"contact_info"}),
             Without(UserDocAnn, {"profile"})}
      [] type = PRODUCT_CREATED ->
            {Without(ProductDocChai, {"stats", "metadata", "supplier_info", "variants"}),
             [Without(ProductDocTea, {"stats"}) EXCEPT !.variants =
                << <<"A", [variant_id |-> "vA", variant_name |-> "vA",
                           price_cents |-> 10]>> >>]}
      [] type = ORDER_CREATED ->
            {Without(OrderDocOne, {"shipping_address", "items", "status"}),
             Without(OrderDocOne, {"customer"}),
             [Without(OrderDocOne, {"shipping_address"}) EXCEPT !.items =
                <<[item_id |-> "item_1",
                   product_snapshot |-> [product_id |-> "p1", supplier_id |-> "s1"],
                   quantity |-> 1, unit_price_cents |-> 100,
                   final_price_cents |-> 100, total_cents |-> 100],
                  [item_id |-> "item_2", quantity |-> 1, unit_price_cents |-> 100,
                   final_price_cents |-> 100, total_cents |-> 100]>>]}
      [] type = POST_CREATED ->
            {Without(PostDocLink, {"stats", "link_preview", "media"}),
             Without(PostDocLink, {"stats"})}

\* The sparse documents and, for the rows they overwrite, a full one.
SparseEnvelopes ==
    Combine(USER_CREATED, {}, "u1", SparseDocs(USER_CREATED) \cup {UserDocCat}, {})
    \cup Combine(PRODUCT_CREATED, {}, "p1",
                 SparseDocs(PRODUCT_CREATED) \cup {ProductDocTea}, {})
    \cup Combine(ORDER_CREATED, {}, "o1", SparseDocs(ORDER_CREATED) \cup {OrderDocOne}, {})
    \cup Combine(POST_CREATED, {}, "q1", SparseDocs(POST_CREATED) \cup {PostDocLink}, {})

\* The handler registered for the type of a delivered sparse envelope runs.
handle_sparse ==
    \E event \in SparseEnvelopes :
        /\ TopicOf(event.event_type) \in subscribed
        /\ VariantIdsLeft(db, event)
        /\ ItemIdsLeft(db, event)
        /\ Handled(event, get_handlers(db, event, clock), clock)

SpecDecode == Init /\ [][handle_sparse]_vars

----------------------------------------------------------------------------
(* One partition log consumed in order                                     *)

\* The envelopes a log of the model is made of.
ReplayEnvelopes ==
    {Envelope(USER_CREATED, "u1", Stamp(1), UserDocAnn),
     Envelope(USER_DELETED, "u1", Stamp(2), [user_id |-> "u1"]),
     Envelope(PRODUCT_CREATED, "p1", Stamp(1), ProductDocTea),
     Envelope(PRODUCT_UPDATED, "p1", Stamp(2), ProductDocChai),
     Envelope(PRODUCT_UPDATED, "p1", Stamp(2), ProductDocUnpriced),
     Envelope(PRODUCT_OUT_OF_STOCK, "p1", Stamp(2), ProductDocOutOfStock),
     Envelope(PRODUCT_DELETED, "p1", Stamp(2), [product_id |-> "p1"]),
     Envelope(ORDER_CREATED, "o1", Stamp(1), OrderDocOne),
     Envelope(ORDER_CREATED, "o2", Stamp(2), OrderDocOne),
     Envelope(ORDER_CREATED, "o1", Stamp(2), OrderDocNoStatus),
     Envelope(ORDER_CANCELLED, "o1", Stamp(2), [order_number |-> "ORD-1"]),
     Envelope(POST_CREATED, "q1", Stamp(1), PostDocLink),
     Envelope(POST_DELETED, "q1", Stamp(2), [post_id |-> "q1"])}

\* The length of the log.
MaxLog == 3

\* The next envelope of the log is published, delivered and handled, the
\* handler running to its end before the next message is polled.
consume(events) ==
    /\ Len(emitted) < MaxLog
    /\ \E event \in events :
        \E now \in IF event.event_type \in {USER_DELETED, POST_DELETED}
                   THEN clock..MaxClock ELSE {clock} :
            LET r == get_handlers(db, event, now)
            IN  /\ emitted' = Append(emitted, event)
                /\ db' = r.db
                /\ raised' = r.raised
                /\ last' = event
                /\ pre' = db
                /\ clock' = now
    /\ UNCHANGED <<subscribed, handlers, bus, committed, consumer, handled, pool, mongo, call>>

consume_in_order == consume(ReplayEnvelopes)

SpecReplay == InitLoop /\ [][consume_in_order]_vars

\* The envelopes of the life of product p1: created, changed, out of stock,
\* deleted, and restored with other columns, with other variants or with none.
ProductLifeEnvelopes ==
    {Envelope(PRODUCT_CREATED, "p1", Stamp(1), ProductDocTea),
     Envelope(PRODUCT_UPDATED, "p1", Stamp(2), ProductDocChai),
     Envelope(PRODUCT_OUT_OF_STOCK, "p1", Stamp(2), ProductDocOutOfStock),
     Envelope(PRODUCT_DELETED, "p1", Stamp(2), [product_id |-> "p1"]),
     Envelope(PRODUCT_RESTORED, "p1", Stamp(2), ProductDocTea),
     Envelope(PRODUCT_RESTORED, "p1", Stamp(2),
              ProductDoc("s2", "Chai", "draft", NULL, IsoText(2), VariantsBC)),
     Envelope(PRODUCT_RESTORED, "p1", Stamp(2),
              ProductDoc("s2", "Chai", "draft", NULL, IsoText(2), EmptyDict))}

\* The next envelope of the product's partition is delivered and handled.
consume_product_life == consume(ProductLifeEnvelopes)

SpecRestore == InitLoop /\ [][consume_product_life]_vars

----------------------------------------------------------------------------
(* The connection pool: one DAL call at a time                             *)

\* The envelope with its child collections left out: its handler makes the
\* parent DAL call only.
ParentOnly(event) ==
    [event EXCEPT !.data = Without(@, {"variants", "items"})]

\* The handler of the envelope has a child list that is not empty (the
\* `if variants:` / `if items:` of the product and order handlers).
HasChildren(event) ==
    LET data == Get(event, "data", EmptyDict)
    IN  CASE event.event_type \in ProductUpsertTypes ->
                ProductVariantList(Get(data, "variants", EmptyDict)) # <<>>
          [] event.event_type = ORDER_CREATED ->
                OrderItemList(Get(data, "items", <<>>)) # <<>>
          [] OTHER -> FALSE

\* The DAL calls the handler of an envelope makes on store d, as the result
\* of each: the parent upsert, a delete or the cancel; then, if the parent
\* call returned and the child list is not empty, replace_variants or
\* insert_order_items.  No call for an event type without a handler.
DalCalls(d, event, now) ==
    LET whole == _process_message(d, event, now)
        parent == _process_message(d, ParentOnly(event), now)
    IN  IF event.event_type \notin registered THEN <<>>
        ELSE IF HasChildren(event) /\ ~parent.raised THEN <<parent, whole>>
        ELSE <<whole>>

\* handler(event) is entered: the next envelope of the log is delivered.
handler_called ==
    /\ pool.pc = "idle"
    /\ Len(emitted) < MaxLog
    /\ \E event \in ReplayEnvelopes :
        \E now \in IF event.event_type \in {USER_DELETED, POST_DELETED}
                   THEN clock..MaxClock ELSE {clock} :
            /\ emitted' = Append(emitted, event)
            /\ last' = event
            /\ pre' = db
            /\ clock' = now
            /\ raised' = FALSE
            /\ pool' = [pool EXCEPT !.todo = DalCalls(db, event, now),
                                    !.pc = IF DalCalls(db, event, now) = <<>>
                                           THEN "idle" ELSE "call"]
    /\ UNCHANGED <<db, subscribed, handlers, bus, committed, consumer, handled, mongo, call>>

\* conn = get_database().get_connection(): the first line of every DAL
\* method; an exhausted pool raises PoolError.
get_connection ==
    /\ pool.pc = "call"
    /\ IF pool.checked_out < pool_size
       THEN /\ pool' = [pool EXCEPT !.checked_out = @ + 1, !.pc = "try"]
            /\ UNCHANGED raised
       ELSE /\ pool' = [pool EXCEPT !.todo = <<>>, !.pc = "idle"]
            /\ raised' = TRUE
    /\ UNCHANGED <<db, clock, subscribed, handlers, last, pre, bus, committed, consumer, emitted,
                   handled, mongo, call>>

\* The try block: the statements of the DAL method run on the connection, to
\* the end or to a database error.
execute ==
    /\ pool.pc = "try"
    /\ db' = Head(pool.todo).db
    /\ raised' = Head(pool.todo).raised
    /\ pool' = [pool EXCEPT !.pc = "finally"]
    /\ UNCHANGED <<clock, subscribed, handlers, last, pre, bus, committed, consumer, emitted,
                   handled, mongo, call>>

\* A DAL method that returns its connection after the last statement, outside
\* any finally block: a database error skips conn.close().
conn_close_on_success(p, error) ==
    IF error THEN [p EXCEPT !.todo = <<>>, !.pc = "idle"]
    ELSE [p EXCEPT !.checked_out = @ - 1,
                   !.todo = Tail(@),
                   !.pc = IF Tail(p.todo) = <<>> THEN "idle" ELSE "call"]

\* finally: conn.close() returns the connection to the pool; an error then
\* leaves the handler, a return leads to the handler's next DAL call.
conn_close(p, error) ==
    [p EXCEPT !.checked_out = @ - 1,
              !.todo = IF error THEN <<>> ELSE Tail(@),
              !.pc = IF error \/ Tail(p.todo) = <<>> THEN "idle" ELSE "call"]

finally ==
    /\ pool.pc = "finally"
    /\ pool' = conn_close(pool, raised)
    /\ UNCHANGED <<db, clock, subscribed, handlers, last, pre, raised, bus, committed, consumer,
                   emitted, handled, mongo, call>>

SpecPool == InitLoop /\ [][handler_called \/ get_connection \/ execute \/ finally]_vars

----------------------------------------------------------------------------
(* Schema bootstrap: Database.init_tables                                  *)

\* TABLE_DEFINITIONS with product_variants and order_items ahead of the
\* tables their foreign keys reference.
TABLE_DEFINITIONS_children_first ==
    <<[name |-> "users", references |-> {}],
      [name |-> "suppliers", references |-> {}],
      [name |-> "product_variants", references |-> {"products"}],
      [name |-> "products", references |-> {}],
      [name |-> "order_items", references |-> {"orders"}],
      [name |-> "orders", references |-> {}],
      [name |-> "posts", references |-> {}]>>

\* The CREATE TABLE IF NOT EXISTS statements in list order, each with the
\* tables its FOREIGN KEY constraints reference.
TABLE_DEFINITIONS ==
    <<[name |-> "users", references |-> {}],
      [name |-> "suppliers", references |-> {}],
      [name |-> "products", references |-> {}],
      [name |-> "product_variants", references |-> {"products"}],
      [name |-> "orders", references |-> {}],
      [name |-> "order_items", references |-> {"orders"}],
      [name |-> "posts", references |-> {}]>>

\* A database without tables.
NoTables == [t \in {} |-> {}]

\* The table an AUTO_INCREMENT counter of the store belongs to.
CounterOf(t) ==
    CASE t = "product_variants" -> {"auto_variants"}
      [] t = "order_items" -> {"auto_items"}
      [] OTHER -> {}

\* CREATE TABLE IF NOT EXISTS: an existing table is left as it is, rows
\* included; a new table is created empty; a FOREIGN KEY that references a
\* table that does not exist is an error.
CreateTableIfNotExists(d, ddl) ==
    IF ddl.name \in DOMAIN d THEN Ok(d)
    ELSE IF ~(ddl.references \subseteq DOMAIN d) THEN Raise(d)
    ELSE Ok([t \in DOMAIN d \cup {ddl.name} \cup CounterOf(ddl.name) |->
                IF t \in DOMAIN d THEN d[t] ELSE EmptyStore[t]])

\* init_tables: the statements are executed in list order on one connection
\* (autocommit); the first error leaves the loop.
RECURSIVE ExecuteAll(_, _)
ExecuteAll(d, ddls) ==
    IF ddls = <<>> THEN Ok(d)
    ELSE LET r == CreateTableIfNotExists(d, Head(ddls))
         IN  IF r.raised THEN r ELSE ExecuteAll(r.db, Tail(ddls))

init_tables(d) == ExecuteAll(d, TABLE_DEFINITIONS)

\* The process starts (or starts again): connect() and init_tables().
start_up ==
    /\ LET r == init_tables(db)
       IN  /\ db' = r.db
           /\ raised' = r.raised
    /\ pre' = db
    /\ last' = NoEvent
    /\ UNCHANGED <<clock, subscribed, handlers, bus, committed, consumer, emitted, handled,
                   pool, mongo, call>>

\* The consumer of a started process handles the next envelope.
serve ==
    /\ DOMAIN db = DOMAIN EmptyStore
    /\ consume_in_order

\* A fresh database: no table exists before the first start.
InitSchema ==
    /\ db = NoTables
    /\ clock = 1
    /\ subscribed = Topic_all
    /\ last = NoEvent
    /\ pre = NoTables
    /\ raised = FALSE
    /\ bus = [tp \in TopicPartitions |-> <<>>]
    /\ committed = [tp \in TopicPartitions |-> 0]
    /\ consumer = NewConsumer(0)
    /\ emitted = <<>>
    /\ handled = <<>>
    /\ pool = IdlePool
    /\ mongo = SeedDocuments
    /\ call = NoCall
    /\ handlers = AssembledHandlers

SpecSchema == InitSchema /\ [][start_up \/ serve]_vars

----------------------------------------------------------------------------
(* The producing services of the primary store                             *)

NotFoundError == "NotFoundError"
ValidationError == "ValidationError"
DuplicateError == "DuplicateError"

\* The present time of utc_now(): the instant of the next emission.
utc_now == IsoText(Len(emitted) + 1)

\* The operation ended with an error before any write: nothing is stored and
\* nothing emitted.
Fails(operation, entity_id, error) ==
    /\ call' = [operation |-> operation, entity_id |-> entity_id, error |-> error]
    /\ UNCHANGED <<db, clock, subscribed, handlers, last, pre, raised, bus, committed, consumer,
                   emitted, handled, pool, mongo>>

\* The operation wrote its documents and then called emit once.
Succeeds(operation, store, event_type, entity_id, data) ==
    /\ mongo' = store
    /\ emit(event_type, entity_id, data)
    /\ call' = [operation |-> operation, entity_id |-> entity_id, error |-> NULL]

\* get_user / get_post without the deleted_at check.
Visible_ignoring_deleted_at(collection, id) == id \in DOMAIN collection

\* get_user / get_post: an absent or soft-deleted document is not found.
Visible(collection, id) ==
    /\ id \in DOMAIN collection
    /\ collection[id].deleted_at = NULL

\* get_product without the status check: a deleted product is found.
get_product_any_status(id) == id \in DOMAIN mongo.products

\* get_product: an absent document or one with status deleted is not found.
get_product(id) ==
    /\ id \in DOMAIN mongo.products
    /\ mongo.products[id].status # "deleted"

\* The collection with one more document, or with one document replaced.
Put(collection, id, doc) ==
    [k \in DOMAIN collection \cup {id} |-> IF k = id THEN doc ELSE collection[k]]

UserService_create_user ==
    \E email \in {"a@b.com", "c@d.com"} :
        IF \E k \in DOMAIN mongo.users : mongo.users[k].email = email
        THEN Fails("create_user", NULL, DuplicateError)
        ELSE \E id \in UserIds \ DOMAIN mongo.users :
                LET user == [email |-> email, display_name |-> "Cat", deleted_at |-> NULL]
                IN  Succeeds("create_user",
                             [mongo EXCEPT !.users = Put(@, id, user)],
                             USER_CREATED, id, user)

UserService_update_user ==
    \E id \in UserIds :
        IF ~Visible(mongo.users, id)
        THEN Fails("update_user", id, NotFoundError)
        ELSE LET user == [mongo.users[id] EXCEPT !.display_name = "Dan"]
             IN  Succeeds("update_user",
                          [mongo EXCEPT !.users = Put(@, id, user)],
                          USER_UPDATED, id, user)

UserService_delete_user ==
    \E id \in UserIds :
        IF ~Visible(mongo.users, id)
        THEN Fails("delete_user", id, NotFoundError)
        ELSE Succeeds("delete_user",
                      [mongo EXCEPT !.users[id].deleted_at = utc_now],
                      USER_DELETED, id, [user_id |-> id])

ProductService_create_product ==
    \E supplier_id \in SupplierIds :
        IF supplier_id \notin DOMAIN mongo.suppliers
        THEN Fails("create_product", NULL, NotFoundError)
        ELSE \E id \in ProductIds \ DOMAIN mongo.products :
                LET product == [supplier_id |-> supplier_id, name |-> "Chai",
                                status |-> "draft", published_at |-> NULL]
                IN  Succeeds("create_product",
                             [mongo EXCEPT
                                !.products = Put(@, id, product),
                                !.suppliers[supplier_id].product_ids = @ \cup {id}],
                             PRODUCT_CREATED, id, product)

ProductService_update_product ==
    \E id \in ProductIds :
        IF ~get_product(id)
        THEN Fails("update_product", id, NotFoundError)
        ELSE LET product == [mongo.products[id] EXCEPT !.name = "Mate"]
             IN  Succeeds("update_product",
                          [mongo EXCEPT !.products = Put(@, id, product)],
                          PRODUCT_UPDATED, id, product)

ProductService_delete_product ==
    \E id \in ProductIds :
        IF ~get_product(id)
        THEN Fails("delete_product", id, NotFoundError)
        ELSE LET supplier_id == mongo.products[id].supplier_id
             IN  Succeeds("delete_product",
                          [mongo EXCEPT
                             !.products[id].status = "deleted",
                             !.suppliers = [s \in DOMAIN @ |->
                                IF s = supplier_id
                                THEN [@[s] EXCEPT !.product_ids = @ \ {id}]
                                ELSE @[s]]],
                          PRODUCT_DELETED, id, [product_id |-> id])

\* A lifecycle operation that saves the new status before it validates the
\* old one.
Lifecycle_saving_first(operation, id, from, to, event_type, stamps) ==
    IF ~get_product(id) THEN Fails(operation, id, NotFoundError)
    ELSE LET product == [mongo.products[id] EXCEPT
                            !.status = to,
                            !.published_at = IF stamps THEN utc_now ELSE @]
         IN  IF mongo.products[id].status \notin from
             THEN /\ mongo' = [mongo EXCEPT !.products = Put(@, id, product)]
                  /\ call' = [operation |-> operation, entity_id |-> id,
                              error |-> ValidationError]
                  /\ UNCHANGED <<db, clock, subscribed, handlers, last, pre, raised, bus,
                                 committed, consumer, emitted, handled, pool>>
             ELSE Succeeds(operation, [mongo EXCEPT !.products = Put(@, id, product)],
                           event_type, id, product)

\* A lifecycle operation of ProductService: the statuses it starts from, the
\* status it sets, and whether it stamps published_at.
Lifecycle(operation, id, from, to, event_type, stamps) ==
    IF ~get_product(id) THEN Fails(operation, id, NotFoundError)
    ELSE IF mongo.products[id].status \notin from
    THEN Fails(operation, id, ValidationError)
    ELSE LET product == [mongo.products[id] EXCEPT
                            !.status = to,
                            !.published_at = IF stamps THEN utc_now ELSE @]
         IN  Succeeds(operation, [mongo EXCEPT !.products = Put(@, id, product)],
                      event_type, id, product)

ProductService_publish_product ==
    \E id \in ProductIds :
        Lifecycle("publish_product", id, {"draft"}, "active", PRODUCT_PUBLISHED, TRUE)

ProductService_discontinue_product ==
    \E id \in ProductIds :
        Lifecycle("discontinue_product", id, {"active", "out_of_stock"},
                  "discontinued", PRODUCT_DISCONTINUED, FALSE)

ProductService_mark_out_of_stock ==
    \E id \in ProductIds :
        Lifecycle("mark_out_of_stock", id, {"active"}, "out_of_stock",
                  PRODUCT_OUT_OF_STOCK, FALSE)

\* restore_product reads the document without get_product: every stored
\* product, whatever its status, becomes a draft.
ProductService_restore_product ==
    \E id \in ProductIds :
        IF id \notin DOMAIN mongo.products
        THEN Fails("restore_product", id, NotFoundError)
        ELSE LET product == [mongo.products[id] EXCEPT !.status = "draft"]
             IN  Succeeds("restore_product",
                          [mongo EXCEPT !.products = Put(@, id, product)],
                          PRODUCT_RESTORED, id, product)

PostService_create_post ==
    \E user_id \in UserIds, is_draft \in BOOLEAN :
        IF ~Visible(mongo.users, user_id)
        THEN Fails("create_post", NULL, NotFoundError)
        ELSE \E id \in PostIds \ DOMAIN mongo.posts :
                LET post == [author |-> user_id, text_content |-> "hi",
                             deleted_at |-> NULL,
                             published_at |-> IF is_draft THEN NULL ELSE utc_now]
                IN  Succeeds("create_post",
                             [mongo EXCEPT !.posts = Put(@, id, post)],
                             POST_CREATED, id, post)

PostService_update_post ==
    \E id \in PostIds :
        IF ~Visible(mongo.posts, id)
        THEN Fails("update_post", id, NotFoundError)
        ELSE LET post == [mongo.posts[id] EXCEPT !.text_content = "edited"]
             IN  Succeeds("update_post",
                          [mongo EXCEPT !.posts = Put(@, id, post)],
                          POST_UPDATED, id, post)

PostService_delete_post ==
    \E id \in PostIds :
        IF ~Visible(mongo.posts, id)
        THEN Fails("delete_post", id, NotFoundError)
        ELSE Succeeds("delete_post",
                      [mongo EXCEPT !.posts[id].deleted_at = utc_now],
                      POST_DELETED, id, [post_id |-> id])

PostService_publish_post ==
    \E id \in PostIds :
        IF ~Visible(mongo.posts, id)
        THEN Fails("publish_post", id, NotFoundError)
        ELSE IF mongo.posts[id].published_at # NULL
        THEN Fails("publish_post", id, ValidationError)
        ELSE LET post == [mongo.posts[id] EXCEPT !.published_at = utc_now]
             IN  Succeeds("publish_post",
                          [mongo EXCEPT !.posts = Put(@, id, post)],
                          POST_PUBLISHED, id, post)

\* create_order: the customer and every product are looked up before the
\* insert; the new order is pending and gets a fresh order number.
OrderService_create_order ==
    \E user_id \in UserIds, product_id \in ProductIds :
        IF ~Visible(mongo.users, user_id)
        THEN Fails("create_order", NULL, NotFoundError)
        ELSE IF \/ product_id \notin DOMAIN mongo.products
                \/ mongo.products[product_id].status # "active"
        THEN Fails("create_order", NULL, ValidationError)
        ELSE \E id \in OrderIds \ DOMAIN mongo.orders :
                \E number \in OrderNumbers \
                        {mongo.orders[k].order_number : k \in DOMAIN mongo.orders} :
                    LET order == [order_number |-> number, status |-> "pending"]
                    IN  Succeeds("create_order",
                                 [mongo EXCEPT !.orders = Put(@, id, order)],
                                 ORDER_CREATED, id, order)

\* cancel_order without the status check.
OrderService_cancel_order_unchecked ==
    \E id \in OrderIds :
        IF id \notin DOMAIN mongo.orders
        THEN Fails("cancel_order", id, NotFoundError)
        ELSE Succeeds("cancel_order",
                      [mongo EXCEPT !.orders[id].status = "cancelled"],
                      ORDER_CANCELLED, id,
                      [order_number |-> mongo.orders[id].order_number])

OrderService_cancel_order ==
    \E id \in OrderIds :
        IF id \notin DOMAIN mongo.orders
        THEN Fails("cancel_order", id, NotFoundError)
        ELSE IF mongo.orders[id].status \notin {"pending", "confirmed"}
        THEN Fails("cancel_order", id, ValidationError)
        ELSE Succeeds("cancel_order",
                      [mongo EXCEPT !.orders[id].status = "cancelled"],
                      ORDER_CANCELLED, id,
                      [order_number |-> mongo.orders[id].order_number])

NextService ==
    \/ UserService_create_user
    \/ UserService_update_user
    \/ UserService_delete_user
    \/ ProductService_create_product
    \/ ProductService_update_product
    \/ ProductService_delete_product
    \/ ProductService_publish_product
    \/ ProductService_discontinue_product
    \/ ProductService_mark_out_of_stock
    \/ ProductService_restore_product
    \/ PostService_create_post
    \/ PostService_update_post
    \/ PostService_delete_post
    \/ PostService_publish_post
    \/ OrderService_create_order
    \/ OrderService_cancel_order

\* The services start on a store that holds documents; the stored order is
\* confirmed or already shipped.
InitService ==
    /\ db = EmptyStore
    /\ clock = 1
    /\ subscribed = Topic_all
    /\ last = NoEvent
    /\ pre = EmptyStore
    /\ raised = FALSE
    /\ bus = [tp \in TopicPartitions |-> <<>>]
    /\ committed = [tp \in TopicPartitions |-> 0]
    /\ consumer = NewConsumer(0)
    /\ emitted = <<>>
    /\ handled = <<>>
    /\ pool = IdlePool
    /\ \E status \in {"confirmed", "shipped"} :
        mongo = [SeedDocuments EXCEPT !.orders["o1"].status = status]
    /\ call = NoCall
    /\ handlers = AssembledHandlers

SpecService == InitService /\ [][NextService]_vars

----------------------------------------------------------------------------
(* Assembling the dispatch table at process start: for every entity        *)
(* consumer, register_handler(event_type, handler) for every item of its   *)
(* get_handlers()                                                          *)

\* Consumer c has registered some of its handlers and not yet all of them.
Registering(c) ==
    /\ \E k \in HandlerKeys(c) : k \in DOMAIN handlers /\ handlers[k] = c
    /\ \E k \in HandlerKeys(c) : ~(k \in DOMAIN handlers /\ handlers[k] = c)

\* register_handler(event_type, handler): self.handlers[event_type] = handler.
\* The consumers are taken one at a time, the items of one consumer in any
\* order.
register_handler(c, event_type) ==
    /\ event_type \in HandlerKeys(c)
    /\ ~(event_type \in DOMAIN handlers /\ handlers[event_type] = c)
    /\ \A o \in Consumers \ {c} : ~Registering(o)
    /\ handlers' = [k \in DOMAIN handlers \cup {event_type} |->
                       IF k = event_type THEN c ELSE handlers[k]]
    /\ UNCHANGED <<db, clock, subscribed, last, pre, raised, bus, committed, consumer,
                   emitted, handled, pool, mongo, call>>

\* A new KafkaConsumer: the table is empty.
InitRegister ==
    /\ db = EmptyStore
    /\ clock = 1
    /\ subscribed = Topic_all
    /\ last = NoEvent
    /\ pre = EmptyStore
    /\ raised = FALSE
    /\ bus = [tp \in TopicPartitions |-> <<>>]
    /\ committed = [tp \in TopicPartitions |-> 0]
    /\ consumer = NewConsumer(0)
    /\ emitted = <<>>
    /\ handled = <<>>
    /\ pool = IdlePool
    /\ mongo = SeedDocuments
    /\ call = NoCall
    /\ handlers = << >>

SpecRegister ==
    InitRegister
    /\ [][\E c \in Consumers : \E k \in EventType : register_handler(c, k)]_vars

----------------------------------------------------------------------------
(* Deletes from the services to the rows: the delete operations emit, the  *)
(* delete handlers resolve the target id                                   *)

\* SupplierService.delete_supplier: the document is removed and
\* supplier.deleted is emitted with the supplier's id as entity_id and as
\* data.supplier_id.
SupplierService_delete_supplier ==
    \E id \in SupplierIds :
        IF id \notin DOMAIN mongo.suppliers
        THEN Fails("delete_supplier", id, NotFoundError)
        ELSE Succeeds("delete_supplier",
                      [mongo EXCEPT !.suppliers = [s \in DOMAIN @ \ {id} |-> @[s]]],
                      SUPPLIER_DELETED, id, [supplier_id |-> id])

\* The delete event types with the payload key their handler reads and the
\* ids of the kind.
DeleteKinds ==
    {<<USER_DELETED, "user_id", UserIds>>,
     <<POST_DELETED, "post_id", PostIds>>,
     <<PRODUCT_DELETED, "product_id", ProductIds>>,
     <<SUPPLIER_DELETED, "supplier_id", SupplierIds>>}

\* The handler of the envelope ran to its end; NOW(6) of a soft delete is any
\* instant from the clock on.
DeleteHandled(event) ==
    \E now \in IF event.event_type \in {USER_DELETED, POST_DELETED}
               THEN clock..MaxClock ELSE {clock} :
        Handled(event, get_handlers(db, event, now), now)

\* The *.created envelopes that fill the tables: one document per kind, for
\* every id of the kind.
CreatedEnvelopes ==
    {Envelope(USER_CREATED, id, Stamp(1), UserDocAnn) : id \in UserIds}
    \cup {Envelope(SUPPLIER_CREATED, id, Stamp(1), SupplierDocAcme) : id \in SupplierIds}
    \cup {Envelope(PRODUCT_CREATED, id, Stamp(1), ProductDocTea) : id \in ProductIds}
    \cup {Envelope(POST_CREATED, id, Stamp(1), PostDocHello) : id \in PostIds}

\* A *.created envelope of the subscribed topic is handled.
handle_created ==
    \E event \in CreatedEnvelopes :
        /\ TopicOf(event.event_type) \in subscribed
        /\ VariantIdsLeft(db, event)
        /\ Handled(event, get_handlers(db, event, clock), clock)

\* The payloads of a delete envelope: no id, an empty or null id, or the id
\* of any entity of the kind (the envelope's own or another).
DeletePayloads(kind) ==
    {EmptyDict} \cup {[k \in {kind[2]} |-> id] : id \in {"", NULL} \cup kind[3]}

\* A delete envelope of the subscribed topic is handled.
handle_deleted ==
    \E kind \in DeleteKinds :
        /\ TopicOf(kind[1]) \in subscribed
        /\ \E id \in kind[3], data \in DeletePayloads(kind) :
              DeleteHandled(Envelope(kind[1], id, Stamp(2), data))

\* A delete envelope a service emitted is delivered and handled.
handle_emitted ==
    \E i \in DOMAIN emitted :
        /\ \E kind \in DeleteKinds : emitted[i].event_type = kind[1]
        /\ TopicOf(emitted[i].event_type) \in subscribed
        /\ DeleteHandled(emitted[i])

\* The consumer process handles the envelopes of its topic while the service
\* of that topic's entity deletes documents.
NextDelete ==
    \/ handle_created
    \/ handle_deleted
    \/ "user" \in subscribed /\ UserService_delete_user
    \/ "supplier" \in subscribed /\ SupplierService_delete_supplier
    \/ "product" \in subscribed /\ ProductService_delete_product
    \/ "post" \in subscribed /\ PostService_delete_post
    \/ handle_emitted

SpecDelete == Init /\ [][NextDelete]_vars

----------------------------------------------------------------------------
(* Properties *)

LastType == Get(last, "event_type", NULL)
LastId == Get(last, "entity_id", NULL)
LastData == Get(last, "data", EmptyDict)

\* The seven tables of a store, without the AUTO_INCREMENT counters.
Tables(d) ==
    [t \in {"users", "suppliers", "products", "product_variants", "orders",
            "order_items", "posts"} |-> d[t]]

\* Child rows without their surrogate AUTO_INCREMENT id.
WithoutId(rows) == {[c \in DOMAIN r \ {"id"} |-> r[c]] : r \in rows}
TablesWithoutVariantIds(d) ==
    [Tables(d) EXCEPT !.product_variants = WithoutId(@)]

VariantsOf(d, product_id) == {r \in d.product_variants : r.product_id = product_id}
ItemsOf(d, order_id) == {r \in d.order_items : r.order_id = order_id}

\* The table an upsert envelope of each kind writes its parent row to.
ParentTable ==
    CASE LastType \in UserUpsertTypes -> "users"
      [] LastType \in SupplierUpsertTypes -> "suppliers"
      [] LastType \in ProductUpsertTypes -> "products"
      [] LastType = ORDER_CREATED -> "orders"
      [] LastType \in PostUpsertTypes -> "posts"

\* The store accepts the parent row of the envelope (no NULL in a NOT NULL
\* column): on an empty store the envelope yields a parent row.
ParentAccepted ==
    LastId \in DOMAIN get_handlers(EmptyStore, last, clock).db[ParentTable]

\* C1 (as stated): applying an upsert envelope a second time leaves the
\* parent row and the child rows identical, every column included.
C1_IdempotentIdentical ==
    LastType \in UpsertTypes =>
        Tables(get_handlers(db, last, clock).db) = Tables(db)

\* C1 (amended): applying an upsert envelope a second time leaves every
\* table as it was, except that the product_variants rows the envelope carries
\* are deleted and inserted again under fresh AUTO_INCREMENT ids: the rows are
\* the same in every other column, and as many.
C1_IdempotentUpToVariantIds ==
    LastType \in UpsertTypes =>
        LET again == get_handlers(db, last, clock)
        IN  /\ TablesWithoutVariantIds(again.db) = TablesWithoutVariantIds(db)
            /\ Cardinality(again.db.product_variants) = Cardinality(db.product_variants)
            /\ again.raised = raised

\* A product upsert carrying variants was applied to an existing product row
\* and wrote its parent row and its variant rows.
C1_Witness ==
    /\ LastType = PRODUCT_UPDATED
    /\ ~raised
    /\ LastId \in DOMAIN pre.products
    /\ pre.products[LastId] # db.products[LastId]
    /\ Cardinality(VariantsOf(db, LastId)) = 2

\* The keys of data.variants of the envelope just applied.
LastVariants == Get(LastData, "variants", <<>>)
LastVariantKeys == {LastVariants[i][1] : i \in DOMAIN LastVariants}
VariantKeys(d, product_id) == {r.variant_key : r \in VariantsOf(d, product_id)}

\* The product the envelope names held variants {A, B} and the envelope
\* carries variants {B, C}.
C2_Case ==
    /\ LastType \in ProductUpsertTypes
    /\ ParentAccepted
    /\ VariantKeys(pre, LastId) = {"A", "B"}
    /\ LastVariantKeys = {"B", "C"}

\* C2: a product upsert carrying variants {B, C}, applied to a product
\* holding {A, B}, leaves that product exactly the variants {B, C}: no A, one
\* row per key, and every column of each row (B included) is the value the
\* envelope carries.
C2_ReplaceAll ==
    C2_Case =>
        LET rows == VariantsOf(db, LastId)
        IN  /\ ~raised
            /\ VariantKeys(db, LastId) = {"B", "C"}
            /\ Cardinality(rows) = 2
            /\ \A r \in rows :
                \E i \in DOMAIN LastVariants :
                    LET v == LastVariants[i][2]
                    IN  /\ LastVariants[i][1] = r.variant_key
                        /\ r.variant_id = v.variant_id
                        /\ r.variant_name = v.variant_name
                        /\ r.attributes_json = json_dumps(v.attributes)
                        /\ r.price_cents = v.price_cents
                        /\ r.cost_cents = v.cost_cents
                        /\ r.quantity = v.quantity
                        /\ r.width_cm = v.package_dimensions.width_cm
                        /\ r.height_cm = v.package_dimensions.height_cm
                        /\ r.depth_cm = v.package_dimensions.depth_cm
                        /\ r.image_url = v.image_url

\* {B, C} has replaced {A, B}, and the stored B differed from the incoming B.
C2_Witness ==
    /\ C2_Case
    /\ ~raised
    /\ \E old \in VariantsOf(pre, LastId), new \in VariantsOf(db, LastId) :
        /\ old.variant_key = "B" /\ new.variant_key = "B"
        /\ old.variant_id # new.variant_id
        /\ old.price_cents # new.price_cents

\* The row a delete envelope names: data.<kind>_id, else entity_id.
DeleteTarget(key) == OrElse(Get(LastData, key, NULL), LastId)

\* C3: user.deleted and post.deleted applied to an existing row leave the row
\* in place with deleted_at set; no handler ever removes a users or a posts row.
C3_SoftDelete ==
    /\ DOMAIN pre.users \subseteq DOMAIN db.users
    /\ DOMAIN pre.posts \subseteq DOMAIN db.posts
    /\ (LastType = USER_DELETED /\ DeleteTarget("user_id") \in DOMAIN pre.users)
        => db.users[DeleteTarget("user_id")].deleted_at # NULL
    /\ (LastType = POST_DELETED /\ DeleteTarget("post_id") \in DOMAIN pre.posts)
        => db.posts[DeleteTarget("post_id")].deleted_at # NULL

\* user.deleted has been applied to a live users row.
C3_Witness ==
    /\ LastType = USER_DELETED
    /\ DeleteTarget("user_id") \in DOMAIN pre.users
    /\ pre.users[DeleteTarget("user_id")].deleted_at = NULL
    /\ db.users[DeleteTarget("user_id")].deleted_at = NOW(clock)

\* C4: after product.deleted the products row it names is gone and so is
\* every product_variants row of that product; after supplier.deleted the
\* suppliers row it names is gone.
C4_HardDelete ==
    /\ LastType = PRODUCT_DELETED =>
        /\ DeleteTarget("product_id") \notin DOMAIN db.products
        /\ VariantsOf(db, DeleteTarget("product_id")) = {}
    /\ LastType = SUPPLIER_DELETED =>
        DeleteTarget("supplier_id") \notin DOMAIN db.suppliers

\* product.deleted has been applied to a product that had variant rows.
C4_Witness ==
    /\ LastType = PRODUCT_DELETED
    /\ DeleteTarget("product_id") \in DOMAIN pre.products
    /\ VariantsOf(pre, DeleteTarget("product_id")) # {}
    /\ DeleteTarget("product_id") \notin DOMAIN db.products

\* supplier.deleted has been applied to an existing suppliers row.
C4_WitnessSupplier ==
    /\ LastType = SUPPLIER_DELETED
    /\ DeleteTarget("supplier_id") \in DOMAIN pre.suppliers
    /\ DeleteTarget("supplier_id") \notin DOMAIN db.suppliers

\* The stored orders rows that hold the order_number the envelope carries.
LastOrderNumber == Get(LastData, "order_number", NULL)
OrdersNumbered(d, n) == {k \in DOMAIN d.orders : d.orders[k].order_number = n}

\* C5: order.cancelled sets status = 'cancelled' on the orders row whose
\* order_number is data.order_number, whatever the envelope's entity_id, and
\* changes nothing else of that row but event_id and event_timestamp; every
\* other orders row, every order_items row and every other table stay as
\* they were.
C5_CancelByOrderNumber ==
    LastType = ORDER_CANCELLED =>
        /\ DOMAIN db.orders = DOMAIN pre.orders
        /\ \A k \in DOMAIN pre.orders :
            IF k \in OrdersNumbered(pre, LastOrderNumber)
            THEN /\ db.orders[k].status = "cancelled"
                 /\ db.orders[k].event_id = last.event_id
                 /\ \A c \in DOMAIN pre.orders[k] \ {"status", "event_id", "event_timestamp"} :
                        db.orders[k][c] = pre.orders[k][c]
            ELSE db.orders[k] = pre.orders[k]
        /\ [Tables(db) EXCEPT !.orders = <<>>] = [Tables(pre) EXCEPT !.orders = <<>>]

\* order.cancelled has cancelled a row whose order_id is not the envelope's
\* entity_id, while another orders row and order_items rows stood by.
C5_Witness ==
    /\ LastType = ORDER_CANCELLED
    /\ \E k \in OrdersNumbered(pre, LastOrderNumber) :
        /\ k # LastId
        /\ pre.orders[k].status # "cancelled"
        /\ db.orders[k].status = "cancelled"
    /\ DOMAIN pre.orders \ OrdersNumbered(pre, LastOrderNumber) # {}
    /\ pre.order_items # {}

\* The instant a stored DATETIME(6) or a wire timestamp denotes.
InstantOfDb(text) == CHOOSE n \in Instants : DbText(n) = text
InstantOfIso(text) == CHOOSE n \in Instants : IsoText(n) = text
\* The envelope is no older than the envelope that last wrote the row.
InEmissionOrder(row) ==
    InstantOfDb(row.event_timestamp) <= InstantOfIso(last.timestamp)

C7_Case ==
    /\ LastType = USER_CREATED
    /\ pre.users = <<>>
    /\ "contact_info" \in DOMAIN LastData
    /\ "primary_email" \in DOMAIN LastData.contact_info
    /\ "profile" \in DOMAIN LastData
    /\ "display_name" \in DOMAIN LastData.profile
    /\ Get(LastData, "version", 0) = 1

\* The users table holds exactly the row of the envelope, flattened.
C7_Row ==
    /\ DOMAIN db.users = {LastId}
    /\ db.users[LastId].user_id = LastId
    /\ db.users[LastId].email = LastData.contact_info.primary_email
    /\ db.users[LastId].display_name = LastData.profile.display_name
    /\ db.users[LastId].version = 1
    /\ db.users[LastId].deleted_at = NULL

SoftDeleted(table, key) ==
    IF DeleteTarget(key) \in DOMAIN pre[table] THEN {DeleteTarget(key)} ELSE {}

\* After a soft delete on `table`, the row named differs from what it was in
\* the columns of `changing` at most, and every other row and table is as it
\* was.
SoftDeleteFrame(table, key, changing) ==
    /\ DOMAIN db[table] = DOMAIN pre[table]
    /\ \A k \in DOMAIN pre[table] :
        IF k \in SoftDeleted(table, key)
        THEN \A c \in DOMAIN pre[table][k] \ changing :
                db[table][k][c] = pre[table][k][c]
        ELSE db[table][k] = pre[table][k]
    /\ [Tables(db) EXCEPT ![table] = <<>>] = [Tables(pre) EXCEPT ![table] = <<>>]

\* C8 (as stated): a soft delete changes only deleted_at: every other field
\* of the row is unchanged, and so is every other row.
C8_OnlyDeletedAt ==
    /\ LastType = USER_DELETED => SoftDeleteFrame("users", "user_id", {"deleted_at"})
    /\ LastType = POST_DELETED => SoftDeleteFrame("posts", "post_id", {"deleted_at"})

\* C8 (amended): a soft delete changes deleted_at and the audit columns
\* event_id and event_timestamp of the row, which take the delete envelope's
\* values; every other field of the row is unchanged, and so is every other
\* row.
C8_DeletedAtAndAudit ==
    /\ LastType = USER_DELETED =>
        /\ SoftDeleteFrame("users", "user_id", {"deleted_at", "event_id", "event_timestamp"})
        /\ \A k \in SoftDeleted("users", "user_id") :
            /\ db.users[k].event_id = last.event_id
            /\ db.users[k].event_timestamp = DbText(InstantOfIso(last.timestamp))
    /\ LastType = POST_DELETED =>
        /\ SoftDeleteFrame("posts", "post_id", {"deleted_at", "event_id", "event_timestamp"})
        /\ \A k \in SoftDeleted("posts", "post_id") :
            /\ db.posts[k].event_id = last.event_id
            /\ db.posts[k].event_timestamp = DbText(InstantOfIso(last.timestamp))

\* post.deleted has been applied to a live post written by another envelope,
\* while another post stood by.
C8_Witness ==
    /\ LastType = POST_DELETED
    /\ \E k \in SoftDeleted("posts", "post_id") :
        /\ pre.posts[k].deleted_at = NULL
        /\ db.posts[k].deleted_at # NULL
        /\ pre.posts[k].event_id # last.event_id
        /\ DOMAIN pre.posts # {k}

\* An upsert envelope has been applied to a store that held the row of its
\* entity_id.
UpsertOnExisting ==
    /\ LastType \in UpsertTypes
    /\ ~raised
    /\ LastId \in DOMAIN pre[ParentTable]

\* The incoming values: the row the envelope yields on an empty store.
Incoming == get_handlers(EmptyStore, last, clock).db[ParentTable][LastId]

\* The columns an upsert leaves as stored when the row exists.
KeptOnDuplicate ==
    CASE ParentTable = "users" -> {"user_id", "created_at"}
      [] ParentTable = "suppliers" -> {"supplier_id", "created_at"}
      [] ParentTable = "products" -> {"product_id", "supplier_id", "created_at"}
      [] ParentTable = "posts" -> {"post_id", "author_user_id", "author_type", "created_at"}
      [] ParentTable = "orders" ->
            DOMAIN Incoming \ {"status", "updated_at", "event_id", "event_timestamp"}
PrimaryKey ==
    CASE ParentTable = "users" -> "user_id"
      [] ParentTable = "suppliers" -> "supplier_id"
      [] ParentTable = "products" -> "product_id"
      [] ParentTable = "posts" -> "post_id"
      [] ParentTable = "orders" -> "order_id"

\* C9 (as stated): an upsert applied to an existing row of any kind leaves
\* every column other than the primary key and created_at equal to the
\* incoming value.
C9_OverwritesAllButKeyAndCreatedAt ==
    UpsertOnExisting =>
        \A c \in DOMAIN Incoming \ {PrimaryKey, "created_at"} :
            db[ParentTable][LastId][c] = Incoming[c]

\* C9 (amended): an upsert applied to an existing row overwrites, for users
\* and suppliers, every column but the primary key and created_at; for
\* products every column but those and supplier_id; for posts every column
\* but those, author_user_id and author_type; for orders only status,
\* updated_at, event_id and event_timestamp.  The overwritten columns equal
\* the incoming values and the others keep the stored values.
C9_OverwritesOnDuplicateColumns ==
    UpsertOnExisting =>
        \A c \in DOMAIN Incoming :
            db[ParentTable][LastId][c] =
                IF c \in KeptOnDuplicate THEN pre[ParentTable][LastId][c] ELSE Incoming[c]

\* order.created has been applied to an existing order whose stored number,
\* customer and shipping city differ from the incoming ones.
C9_Witness ==
    /\ UpsertOnExisting
    /\ ParentTable = "orders"
    /\ Incoming.order_number # pre.orders[LastId].order_number
    /\ Incoming.customer_user_id # pre.orders[LastId].customer_user_id
    /\ Incoming.shipping_city # pre.orders[LastId].shipping_city
    /\ Incoming.status # pre.orders[LastId].status
    /\ db.orders[LastId].status = Incoming.status

\* The envelope is older than the envelope that last wrote the row.
Stale(row) == InstantOfIso(last.timestamp) < InstantOfDb(row.event_timestamp)

\* C10: there is no staleness guard: an upsert whose timestamp is older than
\* the event_timestamp the row stores still overwrites the row, which then
\* shows the older envelope's values in the columns an upsert overwrites and
\* the older envelope's event_id and event_timestamp.
C10_NoStalenessGuard ==
    (UpsertOnExisting /\ Stale(pre[ParentTable][LastId])) =>
        LET row == db[ParentTable][LastId]
        IN  /\ row.event_id = last.event_id
            /\ row.event_timestamp = DbText(InstantOfIso(last.timestamp))
            /\ InstantOfDb(row.event_timestamp) < InstantOfDb(pre[ParentTable][LastId].event_timestamp)
            /\ \A c \in DOMAIN row \ KeptOnDuplicate : row[c] = Incoming[c]

\* A users row written by e2 has been overwritten by the older e1, which
\* carries another e-mail.
C10_Witness ==
    /\ UpsertOnExisting
    /\ ParentTable = "users"
    /\ pre.users[LastId].event_id = "e2"
    /\ last.event_id = "e1"
    /\ Stale(pre.users[LastId])
    /\ pre.users[LastId].email # Incoming.email
    /\ db.users[LastId].email = Incoming.email
    /\ db.users[LastId].event_id = "e1"

\* The variant rows of the product the envelope names, as the envelope
\* carries them: one row per key of data.variants, every column the carried
\* value.
CarriesVariantRow(r) ==
    \E i \in DOMAIN LastVariants :
        LET v == LastVariants[i][2]
        IN  /\ LastVariants[i][1] = r.variant_key
            /\ r.variant_id = v.variant_id
            /\ r.price_cents = v.price_cents
            /\ r.quantity = v.quantity

\* C11: after any product upsert envelope has been applied, the
\* product_variants rows of that product are exactly the variants the
\* envelope carries, for every carried collection, the empty one included.
C11_VariantsEqualCarried ==
    (LastType \in ProductUpsertTypes /\ ~raised) =>
        /\ VariantKeys(db, LastId) = LastVariantKeys
        /\ Cardinality(VariantsOf(db, LastId)) = Cardinality(LastVariantKeys)
        /\ \A r \in VariantsOf(db, LastId) : CarriesVariantRow(r)

\* The order_items rows the envelope yields on an empty store: the incoming
\* items, every column the carried value.
IncomingItems == ItemsOf(get_handlers(EmptyStore, last, clock).db, LastId)
ItemIds(rows) == {r.item_id : r \in rows}
ItemOf(rows, item_id) == CHOOSE r \in rows : r.item_id = item_id

FulfillmentColumns ==
    {"fulfillment_status", "shipped_quantity", "tracking_number", "carrier",
     "shipped_at", "delivered_at"}

C13_DeleteIdempotent ==
    LastType \in DeleteAndCancelTypes =>
        \A now \in clock..MaxClock :
            Tables(get_handlers(db, last, now).db) = Tables(db)

\* The orders rows the INSERT ... ON DUPLICATE KEY UPDATE of the envelope
\* writes: the row of its order_id, else the row holding its order_number,
\* else the new row.
OrderRowsWritten ==
    IF LastId \in DOMAIN pre.orders THEN {LastId}
    ELSE IF OrdersNumbered(pre, LastOrderNumber) # {}
         THEN OrdersNumbered(pre, LastOrderNumber)
         ELSE {LastId}

\* C15: the stored status is the carried one, whatever the status the row
\* had: after a product upsert products.status = data.status, and after
\* order.created orders.status = data.status, or 'pending' when data has no
\* status.  No transition is rejected or altered.
C15_StatusPassThrough ==
    /\ (LastType \in ProductUpsertTypes /\ ParentAccepted) =>
        /\ LastId \in DOMAIN db.products
        /\ db.products[LastId].status = LastData.status
    /\ (LastType = ORDER_CREATED /\ ParentAccepted) =>
        \A k \in OrderRowsWritten :
            /\ k \in DOMAIN db.orders
            /\ db.orders[k].status =
                IF "status" \in DOMAIN LastData THEN LastData.status ELSE "pending"

\* A discontinued product has been taken back to draft, a transition the
\* source does not allow.
C15_Witness ==
    /\ LastType \in ProductUpsertTypes
    /\ LastId \in DOMAIN pre.products
    /\ pre.products[LastId].status = "discontinued"
    /\ LastData.status = "draft"
    /\ db.products[LastId].status = "draft"

\* A cancelled order has been taken back to pending by an envelope that
\* carries no status.
C15_WitnessOrder ==
    /\ LastType = ORDER_CREATED
    /\ "status" \notin DOMAIN LastData
    /\ LastId \in DOMAIN pre.orders
    /\ pre.orders[LastId].status = "cancelled"
    /\ db.orders[LastId].status = "pending"

ParentTables == {"users", "suppliers", "products", "orders", "posts"}

\* The rows of a parent table the envelope just handled is applied to.
AppliedTo(table) ==
    CASE LastType \in UpsertTypes /\ LastType # ORDER_CREATED ->
            IF table = ParentTable /\ ParentAccepted THEN {LastId} ELSE {}
      [] LastType = ORDER_CREATED ->
            IF table = "orders" /\ ParentAccepted THEN OrderRowsWritten ELSE {}
      [] LastType = ORDER_CANCELLED ->
            IF table = "orders" THEN OrdersNumbered(pre, LastOrderNumber) ELSE {}
      [] LastType = USER_DELETED ->
            IF table = "users" THEN SoftDeleted("users", "user_id") ELSE {}
      [] LastType = POST_DELETED ->
            IF table = "posts" THEN SoftDeleted("posts", "post_id") ELSE {}
      [] OTHER -> {}

\* C16: the audit columns of a parent row are those of the envelope most
\* recently applied to it: a handler leaves event_id and event_timestamp of
\* the envelope on every row it applies the envelope to, be it an upsert, a
\* soft delete or an order cancellation, and leaves every other row that
\* stays in the store exactly as it was.
C16_AuditColumns ==
    \A table \in ParentTables :
        \A k \in DOMAIN db[table] :
            IF k \in AppliedTo(table)
            THEN /\ db[table][k].event_id = last.event_id
                 /\ db[table][k].event_timestamp = DbText(InstantOfIso(last.timestamp))
            ELSE /\ k \in DOMAIN pre[table]
                 /\ db[table][k] = pre[table][k]

\* order.cancelled has been applied to an order written by another envelope.
C16_Witness ==
    /\ LastType = ORDER_CANCELLED
    /\ \E k \in OrdersNumbered(pre, LastOrderNumber) :
        /\ pre.orders[k].event_id # last.event_id
        /\ db.orders[k].event_id = last.event_id
        /\ db.orders[k].status = "cancelled"

\* The columns of one variant of the handler's list that product_variants
\* declares NOT NULL.
VariantRejected(v) ==
    \E c \in product_variants_not_null \ {"product_id"} : IsNull(v, c)
Least(S) == CHOOSE i \in S : \A j \in S : i <= j

\* C20: a database error raised in a DAL call leaves the handler: when the
\* store rejects the parent row of an upsert the handler raises and no
\* statement of the message has changed the store, and when it rejects a
\* variant the handler raises with exactly the variants before the rejected
\* one stored; the handler raises in no other case.
C20_FailurePropagates ==
    /\ (LastType \in UpsertTypes /\ ~ParentAccepted) =>
        /\ raised
        /\ db = pre
    /\ (LastType \in ProductUpsertTypes /\ ParentAccepted) =>
        LET carried == ProductVariantList(LastVariants)
            rejected == {i \in DOMAIN carried : VariantRejected(carried[i])}
        IN  /\ raised = (rejected # {})
            /\ rejected # {} =>
                /\ VariantKeys(db, LastId) =
                    {carried[i].variant_key : i \in 1..(Least(rejected) - 1)}
                /\ LastId \in DOMAIN db.products

\* The products table rejected an envelope that carries variants for a
\* product that has stored variants.
C20_Witness ==
    /\ LastType \in ProductUpsertTypes
    /\ ~ParentAccepted
    /\ raised
    /\ LastVariants # <<>>
    /\ VariantsOf(pre, LastId) # {}
    /\ VariantKeys(pre, LastId) # LastVariantKeys

\* A variant in the middle of the list was rejected after the parent row and
\* the first variant were written.
C20_WitnessVariant ==
    /\ LastType \in ProductUpsertTypes
    /\ ParentAccepted
    /\ raised
    /\ VariantKeys(db, LastId) = {"A"}
    /\ Len(LastVariants) = 3

Range(seq) == {seq[i] : i \in DOMAIN seq}
\* The place of an envelope in the order of the emit() calls.
EmissionIndex(event) == CHOOSE i \in DOMAIN emitted : emitted[i] = event
\* No message was handled twice.
NoRedelivery == \A i, j \in DOMAIN handled : handled[i] = handled[j] => i = j

\* C14 (as stated): the committed offset of a partition never passes a
\* message whose handler has not run to completion, at any point of the
\* loop, between poll() and the end of the handler included; so a restart
\* from the committed offsets redelivers every envelope not applied.
C14_CommittedNeverPassesUnhandled ==
    \A tp \in TopicPartitions :
        \A offset \in 0..(committed[tp] - 1) :
            Message(tp, offset) \in Range(handled)

\* C17: emit() publishes every envelope to the topic of its event type's
\* entity prefix and to the partition of its entity_id, and, as long as no
\* message is redelivered, two envelopes of one entity are handled in the
\* order they were emitted.
C17_PerKeyOrdering ==
    /\ \A tp \in TopicPartitions :
        \A i \in DOMAIN bus[tp] :
            tp = <<TopicOf(bus[tp][i].event_type), partitioner(bus[tp][i].entity_id)>>
    /\ NoRedelivery =>
        \A i, j \in DOMAIN handled :
            (/\ i < j
             /\ EventOf(handled[i]).entity_id = EventOf(handled[j]).entity_id) =>
                EmissionIndex(EventOf(handled[i])) < EmissionIndex(EventOf(handled[j]))

\* Two envelopes of one entity have been handled, each once.
C17_Witness ==
    /\ Len(handled) = 2
    /\ NoRedelivery
    /\ EventOf(handled[1]).entity_id = EventOf(handled[2]).entity_id
    /\ EventOf(handled[1]) # EventOf(handled[2])

\* Two envelopes of different entities have been handled against the order
\* of their emission.
C17_WitnessAnyOrder ==
    /\ Len(handled) = 2
    /\ NoRedelivery
    /\ EventOf(handled[1]).entity_id # EventOf(handled[2]).entity_id
    /\ EmissionIndex(EventOf(handled[2])) < EmissionIndex(EventOf(handled[1]))

\* C18: after a message of an event type without a registered handler the
\* store is what it was, no exception has left the loop, the message counts
\* as handled and the loop is at its next iteration.
C18_UnknownTolerated ==
    (last # NoEvent /\ LastType \notin registered) =>
        /\ db = pre
        /\ ~raised
        /\ consumer.state # "failed"
        /\ \E msg \in Range(handled) : EventOf(msg) = last

\* A message of a known type that followed one of an unknown type in its
\* partition has been applied.
C18_Witness ==
    /\ Len(handled) = 2
    /\ EventOf(handled[1]).event_type \notin registered
    /\ handled[2] = Message(handled[1].tp, handled[1].offset + 1)
    /\ last = EventOf(handled[2])
    /\ db # pre

LastRow == db[ParentTable][LastId]
LastItems == {r \in ItemsOf(db, LastId) : r \notin ItemsOf(pre, LastId)}
Absent(key) == key \notin DOMAIN LastData
ProductCounters == {"view_count", "favorite_count", "purchase_count", "total_reviews"}
PostCounters ==
    {"view_count", "like_count", "comment_count", "share_count", "save_count",
     "engagement_rate"}
LinkColumns == {"link_url", "link_title", "link_description", "link_image", "link_site_name"}
ShippingColumns ==
    {"shipping_recipient_name", "shipping_phone", "shipping_street_1",
     "shipping_street_2", "shipping_city", "shipping_state", "shipping_zip_code",
     "shipping_country"}

C22_WitnessProduct ==
    /\ LastType = PRODUCT_CREATED
    /\ Absent("stats") /\ Absent("variants")
    /\ ParentAccepted
    /\ VariantsOf(pre, LastId) # {}
    /\ LastRow.brand = NULL

\* The store after the handlers of a sequence of envelopes ran on store d in
\* order, the database clock reading `now`.
RECURSIVE Replay(_, _, _)
Replay(d, events, now) ==
    IF events = <<>> THEN d
    ELSE Replay(get_handlers(d, Head(events), now).db, Tail(events), now)

\* The tables with deleted_at reduced to whether it is set.
UpToDeletedAt(d) ==
    LET Masked(table) ==
            [k \in DOMAIN table |->
                [c \in DOMAIN table[k] |->
                    IF c = "deleted_at" THEN ToString(table[k][c] # NULL)
                    ELSE table[k][c]]]
    IN  [Tables(d) EXCEPT !.users = Masked(d.users), !.posts = Masked(d.posts)]

\* C27 (as stated): after the log was applied in order, re-applying any
\* suffix of it in order, now or later, leaves every table as it was but for
\* the clock value in deleted_at.
C27_ReplayConverges ==
    \A k \in DOMAIN emitted, now \in clock..MaxClock :
        UpToDeletedAt(Replay(db, SubSeq(emitted, k, Len(emitted)), now))
            = UpToDeletedAt(db)

\* C27 (amended): ... but for the clock value in deleted_at and the
\* AUTO_INCREMENT ids of the product_variants rows, which replace_variants
\* deletes and inserts again.
C27_ReplayConvergesUpToVariantIds ==
    \A k \in DOMAIN emitted, now \in clock..MaxClock :
        [UpToDeletedAt(Replay(db, SubSeq(emitted, k, Len(emitted)), now))
            EXCEPT !.product_variants = WithoutId(@)]
        = [UpToDeletedAt(db) EXCEPT !.product_variants = WithoutId(@)]

\* A log of three envelopes that wrote, overwrote and soft-deleted or
\* cancelled has been applied, and replaying it from its start passes through
\* a store that differs from the final one.
C27_Witness ==
    /\ Len(emitted) = MaxLog
    /\ ~raised
    /\ LastType \in {USER_DELETED, POST_DELETED, ORDER_CANCELLED, PRODUCT_UPDATED}
    /\ Tables(get_handlers(db, emitted[1], clock).db) # Tables(db)

\* The deletion envelope types: soft for users and posts, hard for products
\* and suppliers.
DeleteTypes == {USER_DELETED, POST_DELETED, PRODUCT_DELETED, SUPPLIER_DELETED}

\* The entity of an envelope has a live row in store d: the row exists and,
\* where the table has a deleted_at column, it is NULL.
Live(d, event) ==
    LET table == d[TopicOf(event.event_type) \o "s"]
    IN  /\ event.entity_id \in DOMAIN table
        /\ "deleted_at" \in DOMAIN table[event.entity_id]
                => table[event.entity_id].deleted_at = NULL

\* The last envelope of the log is a redelivery of an upsert that was applied
\* before a deletion of the same entity was applied.
RedeliveredAfterDeletion ==
    /\ LastType \in UpsertTypes
    /\ \E i, j \in DOMAIN emitted :
        /\ i < j
        /\ j < Len(emitted)
        /\ emitted[i] = last
        /\ emitted[j].event_type \in DeleteTypes
        /\ TopicOf(emitted[j].event_type) = TopicOf(LastType)
        /\ emitted[j].entity_id = LastId

\* C28: once a deletion envelope of an entity has been applied, the
\* redelivery of an upsert envelope applied before it does not make the
\* entity live again: deleted_at is not set back to NULL and the hard-deleted
\* row is not inserted again.
C28_DeletionFinal ==
    RedeliveredAfterDeletion => ~Live(db, last)

\* The redelivered upsert found the entity deleted (soft-deleted row, or no
\* row) and the handler did not raise.
C28_Case ==
    /\ RedeliveredAfterDeletion
    /\ ~Live(pre, last)
    /\ ~raised

\* The rows of the parent tables of store d that do not belong to the entity
\* of the last envelope, and the child rows that do not hang under it.
RowsOfOthers(d) ==
    [t \in ParentTables |->
        IF t = ParentTable
        THEN [id \in DOMAIN d[t] \ {LastId} |-> d[t][id]]
        ELSE d[t]]

ChildrenOfOthers(d) ==
    [product_variants |->
        {v \in d.product_variants :
            ~(ParentTable = "products" /\ v.product_id = LastId)},
     order_items |->
        {i \in d.order_items :
            ~(ParentTable = "orders" /\ i.order_id = LastId)}]

\* C29: an upsert envelope for entity X changes no parent row of another
\* entity id and no child row of another entity, also when an order.created
\* carries the order_number of an existing order with another order_id.
C29_EntityIsolation ==
    LastType \in UpsertTypes =>
        /\ RowsOfOthers(db) = RowsOfOthers(pre)
        /\ ChildrenOfOthers(db) = ChildrenOfOthers(pre)

\* An order.created arrived whose order_number is held by an order with
\* another order_id.
C29_Case ==
    /\ LastType = ORDER_CREATED
    /\ \E y \in DOMAIN pre.orders \ {LastId} :
        pre.orders[y].order_number = Get(LastData, "order_number", NULL)

\* C29 without the collision: unless the order_number is held by another
\* order, only the rows of the entity change.
C29_IsolationWithoutCollision ==
    (LastType \in UpsertTypes /\ ~C29_Case) =>
        /\ RowsOfOthers(db) = RowsOfOthers(pre)
        /\ ChildrenOfOthers(db) = ChildrenOfOthers(pre)

\* Every child row of store d references an existing parent row.
ReferentialIntegrity(d) ==
    /\ \A v \in d.product_variants : v.product_id \in DOMAIN d.products
    /\ \A i \in d.order_items : i.order_id \in DOMAIN d.orders

\* C30: in every reachable state every product_variants row references an
\* existing products row and every order_items row an existing orders row;
\* and the handler writes the parent first: when it leaves no parent row for
\* its entity, the store refused that row (a NULL in a NOT NULL column, or an
\* order_number held by another order), not a child written ahead of it.
C30_ReferentialIntegrity ==
    /\ ReferentialIntegrity(db)
    /\ (/\ LastType \in ProductUpsertTypes \cup {ORDER_CREATED}
        /\ LastId \notin DOMAIN db[ParentTable]
        /\ LastId \notin DOMAIN pre[ParentTable])
            => ~ParentAccepted \/ C29_Case

\* Children hang under two parents, and a hard delete has just removed a
\* product that had variants while another product keeps its own.
C30_Witness ==
    /\ LastType = PRODUCT_DELETED
    /\ \E v \in pre.product_variants : v.product_id \notin DOMAIN db.products
    /\ db.product_variants # {}

\* The variant rows of the product of the last envelope in store d.
VariantsOfLast(d) == {v \in d.product_variants : v.product_id = LastId}

\* C25: replace_variants takes effect whole or not at all: when a statement
\* of it fails, the product still has the variant rows it had before.
C25_ReplaceAllAtomic ==
    (LastType \in ProductUpsertTypes /\ raised /\ LastId \in DOMAIN db.products)
        => VariantsOfLast(db) = VariantsOfLast(pre)

\* An INSERT of replace_variants failed after the DELETE: the previous
\* variants are gone and only the rows inserted before the failure remain.
C25_Case ==
    /\ LastType \in ProductUpsertTypes
    /\ raised
    /\ VariantsOfLast(pre) # {}
    /\ VariantsOfLast(db) # VariantsOfLast(pre)
    /\ Cardinality(VariantsOfLast(db)) < Len(Get(LastData, "variants", <<>>))

\* C21: a DAL call in progress holds exactly one connection, between two DAL
\* calls and between two handlers none is checked out, after a database error
\* as after a return; so the consumer never holds more than one of the
\* pool_size connections and get_connection never finds the pool exhausted.
C21_ConnectionDiscipline ==
    /\ pool.pc \in {"try", "finally"} => pool.checked_out = 1
    /\ pool.pc \in {"idle", "call"} => pool.checked_out = 0
    /\ pool.checked_out < pool_size

\* A handler whose second DAL call ended with a database error has been left:
\* both calls had their connection, and none is checked out.
C21_Witness ==
    /\ pool.pc = "idle"
    /\ raised
    /\ db # pre
    /\ LastType \in ProductUpsertTypes \cup {ORDER_CREATED}
    /\ pool.checked_out = 0

\* A second DAL call of one handler is running on its connection.
C21_WitnessSecondCall ==
    /\ pool.pc = "finally"
    /\ Len(pool.todo) = 1
    /\ db # pre
    /\ ~raised
    /\ Head(pool.todo).db # pre
    /\ LastType \in ProductUpsertTypes
    /\ db.product_variants # pre.product_variants

\* C24: init_tables run in any reachable state, fresh or populated, ends
\* without error with exactly the seven tables, leaves every existing table
\* with the rows it had, and run again changes nothing; and in the list every
\* table a foreign key references stands before the table that references it.
C24_BootstrapIdempotent ==
    LET once == init_tables(db)
    IN  /\ ~once.raised
        /\ DOMAIN once.db = DOMAIN EmptyStore
        /\ \A t \in DOMAIN db : once.db[t] = db[t]
        /\ init_tables(once.db) = once
        /\ \A i \in DOMAIN TABLE_DEFINITIONS :
            \A t \in TABLE_DEFINITIONS[i].references :
                \E j \in 1..(i - 1) : TABLE_DEFINITIONS[j].name = t
        /\ (last = NoEvent /\ ~raised /\ DOMAIN pre # {}) => db = pre

\* init_tables has just run again on a store that holds parent and child
\* rows.
C24_Witness ==
    /\ last = NoEvent
    /\ ~raised
    /\ db = pre
    /\ DOMAIN db = DOMAIN EmptyStore
    /\ db.products # <<>>
    /\ db.product_variants # {}
    /\ db.users # <<>>

\* The event type a service operation emits, and the collection it writes.
EventTypeOf(operation) ==
    CASE operation = "create_user" -> USER_CREATED
      [] operation = "update_user" -> USER_UPDATED
      [] operation = "delete_user" -> USER_DELETED
      [] operation = "create_product" -> PRODUCT_CREATED
      [] operation = "update_product" -> PRODUCT_UPDATED
      [] operation = "delete_product" -> PRODUCT_DELETED
      [] operation = "publish_product" -> PRODUCT_PUBLISHED
      [] operation = "discontinue_product" -> PRODUCT_DISCONTINUED
      [] operation = "mark_out_of_stock" -> PRODUCT_OUT_OF_STOCK
      [] operation = "restore_product" -> PRODUCT_RESTORED
      [] operation = "create_post" -> POST_CREATED
      [] operation = "update_post" -> POST_UPDATED
      [] operation = "delete_post" -> POST_DELETED
      [] operation = "publish_post" -> POST_PUBLISHED
      [] operation = "create_order" -> ORDER_CREATED
      [] operation = "cancel_order" -> ORDER_CANCELLED

CollectionOf(operation) == TopicOf(EventTypeOf(operation)) \o "s"

\* The step of a service operation that returned: one envelope more, of the
\* operation's event type, for the id of a stored document, and (but for the
\* delete and cancel events) carrying the document as it is stored after the
\* write.
EmitsOnce ==
    /\ bus' # bus
    /\ Len(emitted') = Len(emitted) + 1
    /\ SubSeq(emitted', 1, Len(emitted)) = emitted
    /\ LET event == emitted'[Len(emitted')]
           collection == mongo'[CollectionOf(call'.operation)]
       IN  /\ event.event_type = EventTypeOf(call'.operation)
           /\ event.entity_id = call'.entity_id
           /\ event.entity_id \in DOMAIN collection
           /\ event.event_type \notin DeleteTypes \cup {ORDER_CANCELLED}
                => event.data = collection[event.entity_id]

\* C23: a service operation that returns emits exactly one envelope of its
\* event type with the document's id, built after the write; one that ends
\* with NotFoundError, ValidationError or DuplicateError leaves the primary
\* store as it was and emits nothing; the store never changes without an
\* envelope.
C23_EmitAtLifecyclePoints ==
    [][/\ call'.error = NULL => EmitsOnce
       /\ call'.error # NULL =>
            /\ call'.error \in {NotFoundError, ValidationError, DuplicateError}
            /\ mongo' = mongo
            /\ emitted' = emitted
            /\ bus' = bus
       /\ mongo' # mongo => call'.error = NULL]_vars

\* A lifecycle operation has been refused with ValidationError after another
\* one changed the product and emitted.
C23_Witness ==
    /\ call.error = ValidationError
    /\ call.operation \in {"publish_product", "mark_out_of_stock", "discontinue_product"}
    /\ Len(emitted) = 2
    /\ emitted[2].event_type \in {PRODUCT_OUT_OF_STOCK, PRODUCT_PUBLISHED, PRODUCT_DISCONTINUED}
    /\ mongo.products[call.entity_id].status = Get(emitted[2].data, "status", NULL)

\* The order.cancelled envelopes emitted for an order id.
Cancellations(id) ==
    {i \in DOMAIN emitted :
        emitted[i].event_type = ORDER_CANCELLED /\ emitted[i].entity_id = id}

\* C26: cancel_order on a pending or confirmed order sets status cancelled
\* and emits one order.cancelled envelope with the order's id and only its
\* order_number; on any other status it ends with ValidationError, writes
\* nothing and emits nothing; no order ever has two order.cancelled
\* envelopes.
C26_SourceSideCancellation ==
    /\ [][call'.operation = "cancel_order" =>
            LET id == call'.entity_id
            IN  IF id \notin DOMAIN mongo.orders
                THEN call'.error = NotFoundError /\ mongo' = mongo /\ emitted' = emitted
                ELSE IF mongo.orders[id].status \in {"pending", "confirmed"}
                THEN /\ call'.error = NULL
                     /\ mongo' = [mongo EXCEPT !.orders[id].status = "cancelled"]
                     /\ Len(emitted') = Len(emitted) + 1
                     /\ SubSeq(emitted', 1, Len(emitted)) = emitted
                     /\ emitted'[Len(emitted')].event_type = ORDER_CANCELLED
                     /\ emitted'[Len(emitted')].entity_id = id
                     /\ emitted'[Len(emitted')].data
                            = [order_number |-> mongo.orders[id].order_number]
                ELSE /\ call'.error = ValidationError
                     /\ mongo' = mongo
                     /\ emitted' = emitted]_vars
    /\ [](\A id \in OrderIds : Cardinality(Cancellations(id)) <= 1)

\* An order was created pending and cancelled, and a second cancel_order on
\* it has been refused.
C26_Witness ==
    /\ call.operation = "cancel_order"
    /\ call.error = ValidationError
    /\ mongo.orders[call.entity_id].status = "cancelled"
    /\ Cardinality(Cancellations(call.entity_id)) = 1
    /\ \E i \in DOMAIN emitted :
        emitted[i].event_type = ORDER_CREATED /\ emitted[i].entity_id = call.entity_id

\* The payload key a delete handler reads its target id from.
PayloadKey(type) ==
    CASE type = USER_DELETED -> "user_id"
      [] type = POST_DELETED -> "post_id"
      [] type = PRODUCT_DELETED -> "product_id"
      [] type = SUPPLIER_DELETED -> "supplier_id"

\* The row the last delete or cancel envelope aims at was not in the store
\* when its handler started.
TargetMissing ==
    IF LastType = ORDER_CANCELLED
    THEN \A k \in DOMAIN pre.orders :
            pre.orders[k].order_number # Get(LastData, "order_number", NULL)
    ELSE DeleteTarget(PayloadKey(LastType)) \notin DOMAIN pre[TopicOf(LastType) \o "s"]

\* C31: a delete or cancel envelope whose target row does not exist leaves
\* every table as it was, creates no row, and its handler raises no error.
C31_DeleteOfMissingIsNoOp ==
    (LastType \in DeleteTypes \cup {ORDER_CANCELLED} /\ TargetMissing)
        => db = pre /\ ~raised

\* A delete or cancel arrived for a row that is missing while the store holds
\* other rows.
C31_Witness ==
    /\ LastType \in DeleteTypes \cup {ORDER_CANCELLED}
    /\ TargetMissing
    /\ pre # EmptyStore
    /\ db = pre
    /\ ~raised

\* The entity an envelope belongs to: its kind and its id.
EntityOf(event) == <<TopicOf(event.event_type), event.entity_id>>

\* The last two envelopes of the log, a then b, belong to different entities.
LastTwoOfDifferentEntities ==
    /\ Len(emitted) >= 2
    /\ EntityOf(emitted[Len(emitted) - 1]) # EntityOf(emitted[Len(emitted)])

\* The last two envelopes of the log applied in both orders to the store the
\* rest of the log left: the tables are the same, and each handler raises in
\* one order exactly if it raises in the other.
LastTwoCommute ==
    LET a == emitted[Len(emitted) - 1]
        b == emitted[Len(emitted)]
        base == Replay(EmptyStore, SubSeq(emitted, 1, Len(emitted) - 2), clock)
        a_first == get_handlers(base, a, clock)
        b_second == get_handlers(a_first.db, b, clock)
        b_first == get_handlers(base, b, clock)
        a_second == get_handlers(b_first.db, a, clock)
    IN  /\ UpToDeletedAt(b_second.db) = UpToDeletedAt(a_second.db)
        /\ a_first.raised = a_second.raised
        /\ b_first.raised = b_second.raised

\* The last two envelopes are order envelopes (created or cancelled) that
\* carry one order_number.
OrderNumberShared ==
    /\ Len(emitted) >= 2
    /\ emitted[Len(emitted) - 1].event_type \in {ORDER_CREATED, ORDER_CANCELLED}
    /\ emitted[Len(emitted)].event_type \in {ORDER_CREATED, ORDER_CANCELLED}
    /\ Get(emitted[Len(emitted) - 1].data, "order_number", NULL)
        = Get(emitted[Len(emitted)].data, "order_number", NULL)

\* C32: envelopes of two different entities commute: applied in either order
\* they leave the same projection, and no handler raises in one order only.
C32_DifferentEntitiesCommute ==
    LastTwoOfDifferentEntities => LastTwoCommute

\* C32 without the shared order_number: every other pair of envelopes of
\* different entities commutes.
C32_CommuteUnlessOrderNumberShared ==
    (LastTwoOfDifferentEntities /\ ~OrderNumberShared) => LastTwoCommute

\* The statuses a guarded lifecycle operation starts from (every status for
\* the operations without a status check) and the status it sets.
StartsFrom(operation) ==
    CASE operation = "publish_product" -> {"draft"}
      [] operation = "mark_out_of_stock" -> {"active"}
      [] operation = "discontinue_product" -> {"active", "out_of_stock"}
      [] OTHER -> {"draft", "active", "out_of_stock", "discontinued", "deleted"}

EndsIn(operation, status) ==
    CASE operation = "publish_product" -> "active"
      [] operation = "mark_out_of_stock" -> "out_of_stock"
      [] operation = "discontinue_product" -> "discontinued"
      [] operation = "restore_product" -> "draft"
      [] operation = "delete_product" -> "deleted"
      [] OTHER -> status

\* The status a lifecycle envelope has to carry.
StatusCarried(event_type) ==
    CASE event_type = PRODUCT_PUBLISHED -> "active"
      [] event_type = PRODUCT_OUT_OF_STOCK -> "out_of_stock"
      [] event_type = PRODUCT_DISCONTINUED -> "discontinued"
      [] event_type = PRODUCT_RESTORED -> "draft"

\* C33: publish, mark_out_of_stock and discontinue succeed only from their
\* start statuses and set their end status; every product operation but
\* restore ends with NotFoundError on a deleted (or absent) product; a
\* rejected operation writes nothing and emits nothing; and every published,
\* out_of_stock, discontinued or restored envelope carries the status the
\* operation set.
C33_LifecycleGuarded ==
    /\ [][call'.operation \in {"update_product", "delete_product", "publish_product",
                               "discontinue_product", "mark_out_of_stock",
                               "restore_product"} =>
            LET id == call'.entity_id
                operation == call'.operation
            IN  IF \/ id \notin DOMAIN mongo.products
                   \/ (mongo.products[id].status = "deleted"
                        /\ operation # "restore_product")
                THEN /\ call'.error = NotFoundError
                     /\ mongo' = mongo
                     /\ emitted' = emitted
                ELSE IF mongo.products[id].status \notin StartsFrom(operation)
                THEN /\ call'.error = ValidationError
                     /\ mongo' = mongo
                     /\ emitted' = emitted
                ELSE /\ call'.error = NULL
                     /\ mongo'.products[id].status
                            = EndsIn(operation, mongo.products[id].status)
                     /\ Len(emitted') = Len(emitted) + 1]_vars
    /\ [](\A i \in DOMAIN emitted :
            emitted[i].event_type \in {PRODUCT_PUBLISHED, PRODUCT_OUT_OF_STOCK,
                                       PRODUCT_DISCONTINUED, PRODUCT_RESTORED}
                => emitted[i].data.status = StatusCarried(emitted[i].event_type))

\* A product was deleted and restored, and a lifecycle operation that does
\* not start from draft has been refused on it.
C33_Witness ==
    /\ Len(emitted) = 2
    /\ emitted[1].event_type = PRODUCT_DELETED
    /\ emitted[2].event_type = PRODUCT_RESTORED
    /\ call.operation \in {"mark_out_of_stock", "discontinue_product"}
    /\ call.error = ValidationError
    /\ mongo.products[call.entity_id].status = "draft"

\* An operation on a deleted product has been refused with NotFoundError.
C33_WitnessDeleted ==
    /\ call.operation \in {"update_product", "publish_product", "delete_product"}
    /\ call.error = NotFoundError
    /\ call.entity_id \in DOMAIN mongo.products
    /\ mongo.products[call.entity_id].status = "deleted"

\* C34: on a soft-deleted user or post every later update, publish or delete
\* ends with NotFoundError, writes nothing and emits nothing; so the
\* user.deleted or post.deleted envelope of an entity is the last envelope
\* emitted for it, and there is at most one.
C34_NothingAfterSoftDelete ==
    /\ [][(/\ call'.operation \in {"update_user", "delete_user"}
           /\ call'.entity_id \in DOMAIN mongo.users
           /\ mongo.users[call'.entity_id].deleted_at # NULL)
          \/ (/\ call'.operation \in {"update_post", "publish_post", "delete_post"}
              /\ call'.entity_id \in DOMAIN mongo.posts
              /\ mongo.posts[call'.entity_id].deleted_at # NULL)
          => /\ call'.error = NotFoundError
             /\ mongo' = mongo
             /\ emitted' = emitted]_vars
    /\ [](\A i, j \in DOMAIN emitted :
            (emitted[i].event_type \in {USER_DELETED, POST_DELETED} /\ i < j)
                => EntityOf(emitted[j]) # EntityOf(emitted[i]))

\* A user or post was created and then deleted, and a later operation on it
\* has been refused.
C34_Witness ==
    /\ Len(emitted) = 2
    /\ emitted[2].event_type \in {USER_DELETED, POST_DELETED}
    /\ EntityOf(emitted[1]) = EntityOf(emitted[2])
    /\ call.entity_id = emitted[2].entity_id
    /\ call.operation \in {"update_user", "delete_user", "update_post",
                           "publish_post", "delete_post"}
    /\ TopicOf(EventTypeOf(call.operation)) = TopicOf(emitted[2].event_type)
    /\ call.error = NotFoundError

\* The action names of the event types, "<entity>.<action>".
ActionNames ==
    {"created", "updated", "deleted", "published", "discontinued", "out_of_stock",
     "restored", "cancelled"}

\* The key sets of get_handlers(): every EventType constant is a key of
\* exactly one consumer, every key is an EventType constant "<topic>.<action>"
\* with <topic> in Topic.all(), and no two consumers share a key.
KeySetsPartitionEventType ==
    /\ \A t \in EventType : Cardinality({c \in Consumers : t \in HandlerKeys(c)}) = 1
    /\ \A c \in Consumers : \A k \in HandlerKeys(c) :
          /\ k \in EventType
          /\ \E topic \in Topic_all : \E action \in ActionNames :
                k = topic \o "." \o action
    /\ \A c1, c2 \in Consumers : c1 # c2 => HandlerKeys(c1) \cap HandlerKeys(c2) = {}

\* Every consumer's handlers are in the table.
Assembled ==
    \A c \in Consumers : \A k \in HandlerKeys(c) : k \in DOMAIN handlers

\* C35: the dispatch table is total and unambiguous: the key sets of the five
\* get_handlers() partition the EventType constants, every key's entity prefix
\* is a topic of Topic.all(), assembling the table never overwrites an entry,
\* and in the assembled table every EventType constant has its handler, so
\* that no known event type is treated as unknown.
C35_DispatchTableTotal ==
    /\ [](KeySetsPartitionEventType)
    /\ [](\A k \in DOMAIN handlers : k \in EventType /\ k \in HandlerKeys(handlers[k]))
    /\ [][\A k \in DOMAIN handlers : handlers'[k] = handlers[k]]_vars
    /\ [](Assembled => DOMAIN handlers = EventType /\ DOMAIN handlers = registered)

\* The five consumers have registered all their handlers, PostConsumer's
\* post.deleted included.
C35_Witness ==
    /\ Assembled
    /\ handlers = AssembledHandlers
    /\ handlers[POST_DELETED] = "PostConsumer"
    /\ Cardinality(DOMAIN handlers) = Cardinality(EventType)

\* The log is product.created, product.deleted and product.restored of one
\* product, in that order.
CreatedDeletedRestored ==
    /\ Len(emitted) = 3
    /\ emitted[1].event_type = PRODUCT_CREATED
    /\ emitted[2].event_type = PRODUCT_DELETED
    /\ emitted[3].event_type = PRODUCT_RESTORED
    /\ emitted[1].entity_id = emitted[3].entity_id
    /\ emitted[2].entity_id = emitted[3].entity_id

\* C36: after product.created, product.deleted and product.restored of one
\* product were applied in that order, its products row exists again with
\* status draft and the column values of the restored envelope, and its
\* product_variants rows are exactly the variants that envelope carries.
C36_RestoreRecreates ==
    CreatedDeletedRestored =>
        /\ ~raised
        /\ LastId \in DOMAIN db.products
        /\ db.products[LastId].status = "draft"
        /\ db.products[LastId].name = LastData.name
        /\ db.products[LastId].supplier_id = LastData.supplier_id
        /\ db.products[LastId].published_at = _parse_ts(LastData.published_at)
        /\ db.products[LastId].updated_at = _parse_ts(LastData.updated_at)
        /\ db.products[LastId].event_id = last.event_id
        /\ VariantKeys(db, LastId) = LastVariantKeys
        /\ Cardinality(VariantsOf(db, LastId)) = Cardinality(LastVariantKeys)
        /\ \A r \in VariantsOf(db, LastId) : CarriesVariantRow(r)

\* The restored envelope carries other columns and other variants than the
\* created one, and the row and its variants are the restored ones.
C36_Witness ==
    /\ CreatedDeletedRestored
    /\ emitted[1].data.name # LastData.name
    /\ db.products[LastId].name = LastData.name
    /\ VariantKeys(db, LastId) = {"B", "C"}
    /\ VariantKeys(get_handlers(EmptyStore, emitted[1], clock).db, LastId) = {"A", "B"}

\* The restored envelope carries no variants: the variants of the created
\* envelope are gone with the hard delete and none is stored.
C36_WitnessNoVariants ==
    /\ CreatedDeletedRestored
    /\ LastVariantKeys = {}
    /\ VariantsOf(get_handlers(EmptyStore, emitted[1], clock).db, LastId) # {}
    /\ LastId \in DOMAIN db.products
    /\ VariantsOf(db, LastId) = {}

\* The table the last delete envelope's handler writes, before and after.
TableBefore == pre[TopicOf(LastType) \o "s"]
TableAfter == db[TopicOf(LastType) \o "s"]

\* The rows of that table the handler changed or removed.
RowsAffected ==
    {id \in DOMAIN TableBefore : id \notin DOMAIN TableAfter \/ TableAfter[id] # TableBefore[id]}

\* Row id of that table is deleted after the handler if it was there before:
\* tombstoned (users, posts) or removed (products, suppliers).
DeletedIfPresent(id) ==
    id \in DOMAIN TableBefore =>
        IF LastType \in {USER_DELETED, POST_DELETED}
        THEN id \in DOMAIN TableAfter /\ TableAfter[id].deleted_at # NULL
        ELSE id \notin DOMAIN TableAfter

\* The payload id of the last delete envelope (NULL when absent).
PayloadId == Get(LastData, PayloadKey(LastType), NULL)

\* C37: a delete handler deletes the row named by the payload id, and the row
\* named by entity_id only when the payload id is absent or empty; the delete
\* envelopes the services emit carry the same id twice, so the row they
\* affect is the one named by entity_id.
C37_DeleteTargetResolution ==
    /\ LastType \in DeleteTypes =>
          /\ PayloadId \notin {NULL, ""} =>
                RowsAffected \subseteq {PayloadId} /\ DeletedIfPresent(PayloadId)
          /\ PayloadId \in {NULL, ""} =>
                RowsAffected \subseteq {LastId} /\ DeletedIfPresent(LastId)
    /\ \A i \in DOMAIN emitted :
          emitted[i].event_type \in DeleteTypes =>
              emitted[i].data[PayloadKey(emitted[i].event_type)] = emitted[i].entity_id
    /\ (LastType \in DeleteTypes /\ \E i \in DOMAIN emitted : emitted[i] = last) =>
          RowsAffected \subseteq {LastId} /\ DeletedIfPresent(LastId)

\* A delete envelope emitted by a service has been handled and has deleted
\* the row of its entity_id.
C37_Witness ==
    /\ LastType \in DeleteTypes
    /\ \E i \in DOMAIN emitted : emitted[i] = last
    /\ call.error = NULL
    /\ call.entity_id = LastId
    /\ RowsAffected = {LastId}

\* The payload names another row than entity_id and both rows exist: the
\* payload's row is deleted and the row of entity_id is untouched.
C37_WitnessPayloadWins ==
    /\ LastType \in DeleteTypes
    /\ PayloadId \notin {NULL, "", LastId}
    /\ LastId \in DOMAIN TableBefore
    /\ RowsAffected = {PayloadId}

\* The payload id is the empty string: the row of entity_id is deleted.
C37_WitnessFallback ==
    /\ LastType \in DeleteTypes
    /\ PayloadKey(LastType) \in DOMAIN LastData
    /\ PayloadId = ""
    /\ RowsAffected = {LastId}

====
